---- MODULE Spec2Model ----
(***************************************************************************)
(* Buffer cache and indexed inode layer of the Pintos file system.         *)
(*                                                                         *)
(* The buffer cache is modelled as a set of kernel threads that call       *)
(* bufcache_read, bufcache_write, bufcache_flush and bufcache_reset and    *)
(* are interleaved at every point where the code gives up the cache lock   *)
(* (condition waits and the device I/O inside clean and replace).          *)
(* Sector contents are sequences of BLOCK_SECTOR_SIZE cells.               *)
(***************************************************************************)
EXTENDS Integers, Sequences, FiniteSets, TLC

(* ------------------------------ bounds -------------------------------- *)
NumThreads == 2            \* kernel threads calling into the cache
MaxSector == 3             \* device sectors used by the cache threads: 1..MaxSector
MaxWrites == 2             \* bufcache_write calls issued in one run
MaxCalls == 5              \* cache calls issued in one run
NUM_ENTRIES == 2           \* stands for the 64 slots of the cache
BLOCK_SECTOR_SIZE == 6     \* cells of a sector; stands for the 512 bytes
MaxDevSector == 15         \* the inode layer's device has sectors 0..MaxDevSector
MaxFileSectors == 8        \* longest file the inode operations are asked for, in sectors
MaxInodes == 2             \* files that exist at one time
MaxOpenCnt == 2            \* openers of one inode
MaxOps == 4                \* inode-layer operations issued in one run
MaxLiveCalls == 3          \* cache calls issued in one run under the fair scheduler
MaxGarbage == 1            \* an uninitialised cell holds a value in 0..MaxGarbage

(* ------------------------- program constants -------------------------- *)
INVALID_SECTOR == 65535
INODE_MAGIC == 1229868868
\* unsigned num_ready wraps; the modulus stands for 2^32 within the range of the checker's integers
UINT_MOD == 2^30

NULL == 0
WILD == -1                 \* a pointer that is not an entry of the cache

Threads == 1..NumThreads
Sectors == 1..MaxSector
EntryIds == 1..NUM_ENTRIES
Cells == 1..BLOCK_SECTOR_SIZE
DevSectors == 0..MaxDevSector

VARIABLES
    bufcache,      \* struct bufcache: entries, lru_list, num_ready, num_hits, num_accesses
    cache_lock,    \* holder of bufcache.cache_lock, NULL when free
    disk,          \* fs_device: sector -> contents
    thr,           \* per thread: position in the cache code and its locals
    logical,       \* ghost: per sector, the contents after the latest memcpy of a write
    nwrites,       \* ghost: bufcache_write calls issued
    ncalls,        \* ghost: cache calls issued
    panicked,      \* the kernel has panicked (failed assertion or wild pointer)
    free_map,      \* the free-map: sector -> allocated
    open_inodes,   \* the list of in-memory inodes
    homes,         \* the home sectors the directory names
    last,          \* ghost: the latest inode-layer operation, its arguments and results
    nops,          \* ghost: inode-layer operations issued
    deniers,       \* ghost: per home sector, the openers whose deny is not yet allowed
    proc           \* the user process: its file descriptors, whether it runs, its exit code

inode_vars == <<free_map, open_inodes, homes, last, nops, deniers, proc>>

vars == <<bufcache, cache_lock, disk, thr, logical, nwrites, ncalls, panicked,
          free_map, open_inodes, homes, last, nops, deniers, proc>>

(* ------------------------- helpers on sequences ----------------------- *)
Min(a, b) == IF a < b THEN a ELSE b

Max(a, b) == IF a < b THEN b ELSE a

Fill(v) == [c \in Cells |-> v]

\* list_remove followed by list_push_front
move_to_front(lru, e) == <<e>> \o SelectSeq(lru, LAMBDA x : x /= e)

(* ------------------------------ bufcache ------------------------------ *)
\* bufcache_init: every slot ready, clean, sentinel sector, pushed to the front in turn
bufcache_init ==
    [ entries |-> [i \in EntryIds |->
                     [sector |-> INVALID_SECTOR, ready |-> TRUE, dirty |-> FALSE,
                      data |-> Fill(0)]],
      lru_list |-> [k \in EntryIds |-> NUM_ENTRIES + 1 - k],
      num_ready |-> NUM_ENTRIES,
      num_hits |-> 0,
      num_accesses |-> 0 ]

\* find that overlooks the slots that are not ready (seeded fault for C2)
find_ready_only(bc, sector) ==
    IF \E i \in EntryIds : bc.entries[i].sector = sector /\ bc.entries[i].ready
    THEN CHOOSE i \in EntryIds :
            /\ bc.entries[i].sector = sector /\ bc.entries[i].ready
            /\ \A j \in EntryIds :
                  (bc.entries[j].sector = sector /\ bc.entries[j].ready) => i <= j
    ELSE NULL

\* find: the first slot of the array whose sector matches, or NULL
find(bc, sector) ==
    IF \E i \in EntryIds : bc.entries[i].sector = sector
    THEN CHOOSE i \in EntryIds :
            /\ bc.entries[i].sector = sector
            /\ \A j \in EntryIds : bc.entries[j].sector = sector => i <= j
    ELSE NULL

\* get_eviction_candidate taking the front-most ready entry
get_eviction_candidate_front(bc) ==
    IF bc.num_ready = 0 THEN NULL
    ELSE IF \E k \in 1..Len(bc.lru_list) : bc.entries[bc.lru_list[k]].ready
    THEN LET k == CHOOSE k \in 1..Len(bc.lru_list) :
                     /\ bc.entries[bc.lru_list[k]].ready
                     /\ \A m \in 1..Len(bc.lru_list) :
                           bc.entries[bc.lru_list[m]].ready => k <= m
         IN bc.lru_list[k]
    ELSE WILD

\* get_eviction_candidate: NULL when num_ready is 0; otherwise the rearmost ready
\* slot of the LRU list.  When num_ready is not 0 and no slot is ready the scan
\* walks past the list head: WILD.
get_eviction_candidate(bc) ==
    IF bc.num_ready = 0 THEN NULL
    ELSE IF \E k \in 1..Len(bc.lru_list) : bc.entries[bc.lru_list[k]].ready
    THEN LET k == CHOOSE k \in 1..Len(bc.lru_list) :
                     /\ bc.entries[bc.lru_list[k]].ready
                     /\ \A m \in 1..Len(bc.lru_list) :
                           bc.entries[bc.lru_list[m]].ready => m <= k
         IN bc.lru_list[k]
    ELSE WILD

\* clean, up to lock_release
clean_begin(bc, e) ==
    [bc EXCEPT !.entries[e].ready = FALSE,
               !.num_ready = (bc.num_ready - 1) % UINT_MOD]

\* clean, from lock_acquire on
clean_end(bc, e) ==
    [bc EXCEPT !.entries[e].ready = TRUE,
               !.entries[e].dirty = FALSE,
               !.num_ready = (bc.num_ready + 1) % UINT_MOD]

\* replace, up to lock_release
replace_begin(bc, e, sector) ==
    [bc EXCEPT !.entries[e].sector = sector,
               !.entries[e].ready = FALSE,
               !.num_ready = (bc.num_ready - 1) % UINT_MOD]

\* replace, from lock_acquire on
replace_end(bc, e) ==
    [bc EXCEPT !.entries[e].ready = TRUE,
               !.num_ready = (bc.num_ready + 1) % UINT_MOD]

\* block_write(fs_device, sector, data)
block_write(d, sector, data) == [d EXCEPT ![sector] = data]

\* block_read(fs_device, sector, &entry->data)
block_read(bc, d, e, sector) == [bc EXCEPT !.entries[e].data = d[sector]]

\* the blind branch of bufcache_access: rename the victim in place
blind_rename(bc, e, sector) == [bc EXCEPT !.entries[e].sector = sector]

\* the return of bufcache_access on a ready match, without the count of hits
access_hit_uncounted(bc, e, is_hit) ==
    [bc EXCEPT !.lru_list = move_to_front(bc.lru_list, e)]

\* the hit branch of bufcache_access: count the hit while the latch is set, move to front
access_hit(bc, e, is_hit) ==
    [bc EXCEPT !.num_hits = IF is_hit THEN bc.num_hits + 1 ELSE bc.num_hits,
               !.lru_list = move_to_front(bc.lru_list, e)]

\* One iteration of the while loop of bufcache_access, with CAND the slot
\* get_eviction_candidate returned.  The result names what the iteration does:
\*   "return"   the ready match ENT is returned to the caller
\*   "wait"     cond_wait on ENT's until_ready
\*   "wait_one" cond_wait on until_one_ready
\*   "clean"    clean(ENT) has released the lock and is about to write
\*   "replace"  replace(ENT, sector) has released the lock and is about to read
\*   "again"    the victim was renamed in place; next iteration
access_iter(bc, sector, blind, is_hit, cand) ==
    LET match == find(bc, sector) IN
    IF match /= NULL THEN
        IF ~bc.entries[match].ready
        THEN [bc |-> bc, kind |-> "wait", ent |-> match, is_hit |-> is_hit]
        ELSE [bc |-> access_hit(bc, match, is_hit), kind |-> "return", ent |-> match,
              is_hit |-> FALSE]
    ELSE IF cand = NULL
        THEN [bc |-> bc, kind |-> "wait_one", ent |-> NULL, is_hit |-> FALSE]
    ELSE IF bc.entries[cand].dirty
        THEN [bc |-> clean_begin(bc, cand), kind |-> "clean", ent |-> cand, is_hit |-> FALSE]
    ELSE IF blind
        THEN [bc |-> blind_rename(bc, cand, sector), kind |-> "again", ent |-> cand,
              is_hit |-> FALSE]
    ELSE [bc |-> replace_begin(bc, cand, sector), kind |-> "replace", ent |-> cand,
          is_hit |-> FALSE]

\* a bufcache_write that is never blind (seeded fault for C6)
is_blind_never(length) == FALSE

\* bufcache_write: the access is blind when the whole sector is overwritten
is_blind(length) == length = BLOCK_SECTOR_SIZE

\* memcpy(buffer, &entry->data[offset], length)
copy_out(data, offset, length) == [k \in 1..length |-> data[offset + k]]

\* memcpy(&entry->data[offset], buffer, length)
copy_in(data, buffer, offset, length) ==
    [c \in Cells |-> IF c > offset /\ c <= offset + length THEN buffer[c - offset]
                     ELSE data[c]]


\* bufcache_reset: takes no lock
bufcache_reset(bc) ==
    [bc EXCEPT !.num_ready = NUM_ENTRIES,
               !.num_hits = 0,
               !.num_accesses = 0,
               !.entries = [i \in EntryIds |->
                              [bc.entries[i] EXCEPT !.dirty = FALSE, !.ready = TRUE,
                                                    !.sector = INVALID_SECTOR]]]

(* ------------------------- threads in the cache ----------------------- *)
PANIC == -2

IdleThr ==
    [pc |-> "idle", kind |-> "none", sector |-> NULL, offset |-> 0, length |-> 0,
     is_hit |-> FALSE, ent |-> NULL, i |-> 0, io_sector |-> NULL,
     buffer |-> <<>>, need |-> <<>>, snap |-> <<>>, wr |-> FALSE, slow |-> FALSE]

\* What a call of get_eviction_candidate can give the caller.  Walking past the
\* list head is undefined: the kernel panics in list_prev, or the loop stops at
\* memory that is not the rearmost ready slot.
candidate_outcomes(bc) ==
    IF get_eviction_candidate(bc) = WILD THEN EntryIds \cup {PANIC}
    ELSE {get_eviction_candidate(bc)}

\* the version the next memcpy of a write stores: one more than any stored so far
next_version ==
    1 + Max(0, CHOOSE v \in 0..MaxWrites :
                  /\ \A s \in Sectors : \A c \in Cells : logical[s][c] <= v
                  /\ \/ v = 0
                     \/ \E s \in Sectors : \E c \in Cells : logical[s][c] = v)

\* cond_broadcast on entry e's until_ready only
broadcast_until_ready(th, e) ==
    [u \in DOMAIN th |->
        IF th[u].pc = "wait" /\ th[u].ent = e
        THEN [th[u] EXCEPT !.pc = "reacq", !.ent = NULL]
        ELSE th[u]]

\* cond_broadcast on entry e's until_ready and on until_one_ready
broadcast(th, e) ==
    [u \in DOMAIN th |->
        IF \/ th[u].pc = "wait" /\ th[u].ent = e
           \/ th[u].pc = "wait_one"
        THEN [th[u] EXCEPT !.pc = "reacq", !.ent = NULL]
        ELSE th[u]]

\* bufcache_read: lock_acquire and entry into bufcache_access
CallRead(t, s) ==
    /\ UNCHANGED inode_vars
    /\ ~panicked /\ thr[t].pc = "idle" /\ cache_lock = NULL /\ ncalls < MaxCalls
    /\ cache_lock' = t
    /\ bufcache' = [bufcache EXCEPT !.num_accesses = bufcache.num_accesses + 1]
    /\ thr' = [thr EXCEPT ![t] = [IdleThr EXCEPT !.pc = "access", !.kind = "read",
                                     !.sector = s, !.offset = 0,
                                     !.length = BLOCK_SECTOR_SIZE, !.is_hit = TRUE,
                                     !.need = logical[s]]]
    /\ ncalls' = ncalls + 1
    /\ UNCHANGED <<disk, logical, nwrites, panicked>>

\* bufcache_write: lock_acquire and entry into bufcache_access
CallWrite(t, s, off, len) ==
    /\ UNCHANGED inode_vars
    /\ ~panicked /\ thr[t].pc = "idle" /\ cache_lock = NULL /\ ncalls < MaxCalls
    /\ nwrites < MaxWrites
    /\ off + len <= BLOCK_SECTOR_SIZE
    /\ cache_lock' = t
    /\ bufcache' = [bufcache EXCEPT !.num_accesses = bufcache.num_accesses + 1]
    /\ thr' = [thr EXCEPT ![t] = [IdleThr EXCEPT !.pc = "access", !.kind = "write",
                                     !.sector = s, !.offset = off, !.length = len,
                                     !.is_hit = TRUE]]
    /\ ncalls' = ncalls + 1
    /\ nwrites' = nwrites + 1
    /\ UNCHANGED <<disk, logical, panicked>>

\* the caller's code after bufcache_access has returned entry e: memcpy and lock_release
finish_access(t, bc, e) ==
    IF thr[t].kind = "read"
    THEN /\ bufcache' = bc
         /\ thr' = [thr EXCEPT ![t] =
                      [IdleThr EXCEPT !.buffer = copy_out(bc.entries[e].data,
                                                          thr[t].offset, thr[t].length)]]
         /\ UNCHANGED logical
    ELSE LET buf == [k \in 1..thr[t].length |-> next_version]
             new == copy_in(bc.entries[e].data, buf, thr[t].offset, thr[t].length)
         IN /\ bufcache' = [bc EXCEPT !.entries[e].data = new, !.entries[e].dirty = TRUE]
            /\ thr' = [u \in DOMAIN thr |->
                          IF u = t THEN IdleThr
                          ELSE IF thr[u].kind = "flush" THEN [thr[u] EXCEPT !.wr = TRUE]
                          ELSE thr[u]]
            /\ logical' = [logical EXCEPT ![thr[t].sector] =
                              copy_in(logical[thr[t].sector], buf,
                                      thr[t].offset, thr[t].length)]

\* one iteration of the loop of bufcache_access by the thread holding the lock
AccessIter(t) ==
    /\ UNCHANGED inode_vars
    /\ ~panicked /\ thr[t].pc = "access" /\ cache_lock = t
    /\ \E cand \in candidate_outcomes(bufcache) :
         IF find(bufcache, thr[t].sector) = NULL /\ cand = PANIC
         THEN /\ panicked' = TRUE
              /\ UNCHANGED <<bufcache, cache_lock, disk, thr, logical, nwrites, ncalls>>
         ELSE LET r == access_iter(bufcache, thr[t].sector,
                                   thr[t].kind = "write" /\ is_blind(thr[t].length),
                                   thr[t].is_hit, cand)
              IN /\ CASE r.kind = "return" ->
                           /\ finish_access(t, r.bc, r.ent)
                           /\ cache_lock' = NULL
                      [] r.kind = "again" ->
                           /\ bufcache' = r.bc
                           /\ thr' = [thr EXCEPT ![t].is_hit = r.is_hit, ![t].ent = r.ent,
                                                 ![t].slow = TRUE]
                           /\ UNCHANGED <<cache_lock, logical>>
                      [] OTHER ->
                           /\ bufcache' = r.bc
                           /\ thr' = [thr EXCEPT ![t].is_hit = r.is_hit,
                                                 ![t].ent = r.ent,
                                                 ![t].slow = TRUE,
                                                 ![t].pc = CASE r.kind = "wait" -> "wait"
                                                             [] r.kind = "wait_one" -> "wait_one"
                                                             [] r.kind = "clean" -> "clean_io"
                                                             [] r.kind = "replace" -> "replace_io"]
                           /\ cache_lock' = NULL
                           /\ UNCHANGED logical
                 /\ UNCHANGED <<disk, nwrites, ncalls, panicked>>

\* clean: the arguments of block_write are evaluated (entry->sector is read)
CleanIOStart(t) ==
    /\ UNCHANGED inode_vars
    /\ ~panicked /\ thr[t].pc = "clean_io"
    /\ thr' = [thr EXCEPT ![t].pc = "clean_xfer",
                          ![t].io_sector = bufcache.entries[thr[t].ent].sector]
    /\ UNCHANGED <<bufcache, cache_lock, disk, logical, nwrites, ncalls, panicked>>

\* clean: the device copies entry->data to the sector; a sector past the end
\* of the device panics the kernel
CleanIOXfer(t) ==
    /\ UNCHANGED inode_vars
    /\ ~panicked /\ thr[t].pc = "clean_xfer"
    /\ IF thr[t].io_sector \in DOMAIN disk
       THEN /\ disk' = block_write(disk, thr[t].io_sector, bufcache.entries[thr[t].ent].data)
            /\ thr' = [thr EXCEPT ![t].pc = "clean_acq", ![t].io_sector = NULL]
            /\ UNCHANGED panicked
       ELSE /\ panicked' = TRUE
            /\ UNCHANGED <<disk, thr>>
    /\ UNCHANGED <<bufcache, cache_lock, logical, nwrites, ncalls>>

\* clean: lock_acquire, bookkeeping and broadcasts; back in the caller's loop
CleanDone(t) ==
    /\ UNCHANGED inode_vars
    /\ ~panicked /\ thr[t].pc = "clean_acq" /\ cache_lock = NULL
    /\ cache_lock' = t
    /\ bufcache' = clean_end(bufcache, thr[t].ent)
    /\ thr' = [broadcast(thr, thr[t].ent) EXCEPT
                  ![t].pc = IF thr[t].kind = "flush" THEN "flush" ELSE "access",
                  ![t].i = IF thr[t].kind = "flush" THEN thr[t].i + 1 ELSE thr[t].i,
                  ![t].ent = NULL]
    /\ UNCHANGED <<disk, logical, nwrites, ncalls, panicked>>

\* replace: the device fills entry->data from the sector
ReplaceIO(t) ==
    /\ UNCHANGED inode_vars
    /\ ~panicked /\ thr[t].pc = "replace_io"
    /\ bufcache' = block_read(bufcache, disk, thr[t].ent, thr[t].sector)
    /\ thr' = [thr EXCEPT ![t].pc = "replace_acq"]
    /\ UNCHANGED <<cache_lock, disk, logical, nwrites, ncalls, panicked>>

\* replace: lock_acquire, bookkeeping and broadcasts; back in the loop of bufcache_access
ReplaceDone(t) ==
    /\ UNCHANGED inode_vars
    /\ ~panicked /\ thr[t].pc = "replace_acq" /\ cache_lock = NULL
    /\ cache_lock' = t
    /\ bufcache' = replace_end(bufcache, thr[t].ent)
    /\ thr' = [broadcast(thr, thr[t].ent) EXCEPT ![t].pc = "access", ![t].ent = NULL]
    /\ UNCHANGED <<disk, logical, nwrites, ncalls, panicked>>

\* cond_wait: the woken thread takes the lock again and restarts the loop
Reacquire(t) ==
    /\ UNCHANGED inode_vars
    /\ ~panicked /\ thr[t].pc = "reacq" /\ cache_lock = NULL
    /\ cache_lock' = t
    /\ thr' = [thr EXCEPT ![t].pc = "access"]
    /\ UNCHANGED <<bufcache, disk, logical, nwrites, ncalls, panicked>>

\* ghost: the sectors cached dirty, each with its cached image
dirty_images(bc) ==
    LET ds == {bc.entries[i].sector : i \in {j \in EntryIds : bc.entries[j].dirty}}
    IN [s \in ds |-> bc.entries[find(bc, s)].data]

\* bufcache_flush: lock_acquire
CallFlush(t) ==
    /\ UNCHANGED inode_vars
    /\ ~panicked /\ thr[t].pc = "idle" /\ cache_lock = NULL /\ ncalls < MaxCalls
    /\ cache_lock' = t
    /\ thr' = [thr EXCEPT ![t] = [IdleThr EXCEPT !.pc = "flush", !.kind = "flush", !.i = 1,
                                                  !.snap = dirty_images(bufcache)]]
    /\ ncalls' = ncalls + 1
    /\ UNCHANGED <<bufcache, disk, logical, nwrites, panicked>>

\* bufcache_flush that returns without lock_release
FlushIter_keeps_lock(t) ==
    /\ UNCHANGED inode_vars
    /\ ~panicked /\ thr[t].pc = "flush" /\ cache_lock = t
    /\ IF thr[t].i > NUM_ENTRIES
       THEN /\ thr' = [thr EXCEPT ![t] = IdleThr]
            /\ UNCHANGED <<bufcache, cache_lock>>
       ELSE IF bufcache.entries[thr[t].i].dirty
       THEN /\ bufcache' = clean_begin(bufcache, thr[t].i)
            /\ thr' = [thr EXCEPT ![t].pc = "clean_io", ![t].ent = thr[t].i]
            /\ cache_lock' = NULL
       ELSE /\ thr' = [thr EXCEPT ![t].i = thr[t].i + 1]
            /\ UNCHANGED <<bufcache, cache_lock>>
    /\ UNCHANGED <<disk, logical, nwrites, ncalls, panicked>>

\* bufcache_flush: one iteration of the for loop, or lock_release after the last
FlushIter(t) ==
    /\ UNCHANGED inode_vars
    /\ ~panicked /\ thr[t].pc = "flush" /\ cache_lock = t
    /\ IF thr[t].i > NUM_ENTRIES
       THEN /\ cache_lock' = NULL
            /\ thr' = [thr EXCEPT ![t] = IdleThr]
            /\ UNCHANGED bufcache
       ELSE IF bufcache.entries[thr[t].i].dirty
       THEN /\ bufcache' = clean_begin(bufcache, thr[t].i)
            /\ thr' = [thr EXCEPT ![t].pc = "clean_io", ![t].ent = thr[t].i]
            /\ cache_lock' = NULL
       ELSE /\ thr' = [thr EXCEPT ![t].i = thr[t].i + 1]
            /\ UNCHANGED <<bufcache, cache_lock>>
    /\ UNCHANGED <<disk, logical, nwrites, ncalls, panicked>>

\* bufcache_reset, called through the reset system call by a thread that is
\* not inside the cache
Reset ==
    /\ UNCHANGED inode_vars
    /\ ~panicked /\ ncalls < MaxCalls
    /\ bufcache' = bufcache_reset(bufcache)
    /\ ncalls' = ncalls + 1
    /\ UNCHANGED <<cache_lock, disk, thr, logical, nwrites, panicked>>

(* ------------------- the cache run by a single thread ------------------ *)
\* The inode layer below is run by one thread at a time: a cache call runs to
\* its return, device I/O included.  S is the file system the thread works on:
\* the cache bc, the device d, the free-map fm, the number of releases of each
\* sector rel (ghost) and whether the kernel has panicked.
FsState(bc, d, fm) ==
    [bc |-> bc, d |-> d, fm |-> fm, rel |-> [s \in DevSectors |-> 0], panic |-> FALSE]

\* a local variable: F applied to the value of e
Bind(e, F(_)) == F(e)

\* bufcache_access, its loop run to the return; clean and replace do their
\* device I/O at once
RECURSIVE bufcache_access(_, _, _, _, _)
bufcache_access(bc, d, sector, blind, is_hit) ==
    Bind(access_iter(bc, sector, blind, is_hit, get_eviction_candidate(bc)), LAMBDA r :
    CASE r.kind = "return" -> [bc |-> r.bc, d |-> d, ent |-> r.ent]
      [] r.kind = "again" -> bufcache_access(r.bc, d, sector, blind, r.is_hit)
      [] r.kind = "clean" ->
           bufcache_access(clean_end(r.bc, r.ent),
                           block_write(d, r.bc.entries[r.ent].sector,
                                       r.bc.entries[r.ent].data),
                           sector, blind, r.is_hit)
      [] r.kind = "replace" ->
           bufcache_access(replace_end(block_read(r.bc, d, r.ent, sector), r.ent),
                           d, sector, blind, r.is_hit)
      [] OTHER -> [bc |-> r.bc, d |-> d, ent |-> NULL])

\* bufcache_read; a sector past the end of the device panics the kernel in the
\* block layer
bufcache_read(S, sector, offset, length) ==
    IF S.panic \/ sector \notin DevSectors
    THEN [S |-> [S EXCEPT !.panic = TRUE], data |-> copy_out(Fill(0), offset, length)]
    ELSE Bind(bufcache_access([S.bc EXCEPT !.num_accesses = S.bc.num_accesses + 1],
                              S.d, sector, FALSE, TRUE), LAMBDA a :
         [S |-> [S EXCEPT !.bc = a.bc, !.d = a.d],
          data |-> copy_out(a.bc.entries[a.ent].data, offset, length)])

\* bufcache_write
bufcache_write(S, sector, buffer, offset, length) ==
    IF S.panic \/ sector \notin DevSectors
    THEN [S EXCEPT !.panic = TRUE]
    ELSE Bind(bufcache_access([S.bc EXCEPT !.num_accesses = S.bc.num_accesses + 1],
                              S.d, sector, is_blind(length), TRUE), LAMBDA a :
         [S EXCEPT !.d = a.d,
                   !.bc = [a.bc EXCEPT
                             !.entries[a.ent].data =
                                 copy_in(a.bc.entries[a.ent].data, buffer, offset, length),
                             !.entries[a.ent].dirty = TRUE]])

(* ------------------------------ free-map ------------------------------ *)
FREE_MAP_SECTOR == 0
ROOT_DIR_SECTOR == 1

\* free-map after formatting: its own sector and the root directory's are taken
free_map_init == [s \in DevSectors |-> s \in {FREE_MAP_SECTOR, ROOT_DIR_SECTOR}]

\* free_map_allocate(1, &sector): the first free sector, NULL when there is none
free_map_allocate(fm) ==
    IF \E s \in DevSectors : ~fm[s]
    THEN CHOOSE s \in DevSectors : ~fm[s] /\ \A u \in DevSectors : ~fm[u] => s <= u
    ELSE NULL

\* free_map_release(sector, 1)
free_map_release(S, sector) ==
    IF sector \notin DevSectors THEN [S EXCEPT !.panic = TRUE]
    ELSE [S EXCEPT !.fm[sector] = FALSE, !.rel[sector] = S.rel[sector] + 1]

(* ------------------------------- inode -------------------------------- *)
\* struct inode_disk fills one sector: the direct pointers and five more fields
DIRECT_BLOCK_COUNT == BLOCK_SECTOR_SIZE - 5

\* struct indirect_block: a sector of pointers
INDIRECT_BLOCK_COUNT == BLOCK_SECTOR_SIZE

\* the cells of struct inode_disk after the direct pointers
OFS_INDIRECT == DIRECT_BLOCK_COUNT + 1

OFS_DOUBLY == DIRECT_BLOCK_COUNT + 2

OFS_ISDIR == DIRECT_BLOCK_COUNT + 3

OFS_LENGTH == DIRECT_BLOCK_COUNT + 4

OFS_MAGIC == DIRECT_BLOCK_COUNT + 5

\* (block_sector_t) -1
NO_SECTOR == UINT_MOD - 1

\* integer division of C: truncates toward zero
c_div(a, b) == IF a >= 0 THEN a \div b ELSE 0 - ((0 - a) \div b)

\* DIV_ROUND_UP
DIV_ROUND_UP(x, step) == (x + step - 1) \div step

\* bytes_to_sectors
bytes_to_sectors(size) == DIV_ROUND_UP(size, BLOCK_SECTOR_SIZE)

\* byte_to_sector, scenario 2: the pointer is in the indirect block
byte_to_sector_indirect(S, disk_inode, index) ==
    Bind(bufcache_read(S, disk_inode[OFS_INDIRECT], 0, BLOCK_SECTOR_SIZE), LAMBDA b :
    [S |-> b.S, rv |-> b.data[index - DIRECT_BLOCK_COUNT + 1]])

\* byte_to_sector, scenario 3: the pointer is in a second-level block
byte_to_sector_doubly(S, disk_inode, remaining_index) ==
    Bind(bufcache_read(S, disk_inode[OFS_DOUBLY], 0, BLOCK_SECTOR_SIZE), LAMBDA f :
    Bind(bufcache_read(f.S,
                       IF remaining_index \div INDIRECT_BLOCK_COUNT < INDIRECT_BLOCK_COUNT
                       THEN f.data[(remaining_index \div INDIRECT_BLOCK_COUNT) + 1]
                       ELSE WILD,
                       0, BLOCK_SECTOR_SIZE), LAMBDA b :
    [S |-> b.S, rv |-> b.data[(remaining_index % INDIRECT_BLOCK_COUNT) + 1]]))

\* byte_to_sector: the sector holding byte pos of the inode at sector, NO_SECTOR
\* when pos is not below the length
byte_to_sector(S, sector, pos) ==
    Bind(bufcache_read(S, sector, 0, BLOCK_SECTOR_SIZE), LAMBDA r :
    IF ~(pos < r.data[OFS_LENGTH]) THEN [S |-> r.S, rv |-> NO_SECTOR]
    ELSE IF c_div(pos, BLOCK_SECTOR_SIZE) < DIRECT_BLOCK_COUNT
    THEN [S |-> r.S, rv |-> r.data[c_div(pos, BLOCK_SECTOR_SIZE) + 1]]
    ELSE IF c_div(pos, BLOCK_SECTOR_SIZE) < DIRECT_BLOCK_COUNT + INDIRECT_BLOCK_COUNT
    THEN byte_to_sector_indirect(r.S, r.data, c_div(pos, BLOCK_SECTOR_SIZE))
    ELSE byte_to_sector_doubly(r.S, r.data,
                               c_div(pos, BLOCK_SECTOR_SIZE) - DIRECT_BLOCK_COUNT
                                   - INDIRECT_BLOCK_COUNT))

\* inode_allocate_sector: a pointer that is not 0 is left alone; otherwise a
\* sector is taken from the free-map and written with the local buffer, which
\* the code never initialises: every cell of it holds g
inode_allocate_sector(S, sector, g) ==
    IF sector /= 0 THEN [ok |-> TRUE, sector |-> sector, S |-> S]
    ELSE Bind(free_map_allocate(S.fm), LAMBDA s :
         IF s = NULL THEN [ok |-> FALSE, sector |-> sector, S |-> S]
         ELSE [ok |-> TRUE, sector |-> s,
               S |-> bufcache_write([S EXCEPT !.fm[s] = TRUE], s, Fill(g),
                                    0, BLOCK_SECTOR_SIZE)])

\* the loops over inode_allocate_sector in inode_allocate and
\* inode_allocate_indirect: the pointers cells[i..last_i]
RECURSIVE inode_allocate_sectors(_, _, _, _, _)
inode_allocate_sectors(S, cells, i, last_i, g) ==
    IF i > last_i THEN [ok |-> TRUE, cells |-> cells, S |-> S]
    ELSE Bind(inode_allocate_sector(S, cells[i], g), LAMBDA a :
         IF ~a.ok THEN [ok |-> FALSE, cells |-> cells, S |-> a.S]
         ELSE inode_allocate_sectors(a.S, [cells EXCEPT ![i] = a.sector], i + 1, last_i, g))

\* inode_allocate_indirect
inode_allocate_indirect(S, sector, count, g) ==
    Bind(inode_allocate_sector(S, sector, g), LAMBDA a :
    IF ~a.ok THEN [ok |-> FALSE, sector |-> a.sector, S |-> a.S]
    ELSE Bind(bufcache_read(a.S, a.sector, 0, BLOCK_SECTOR_SIZE), LAMBDA r :
         Bind(inode_allocate_sectors(r.S, r.data, 1, count, g), LAMBDA l :
         IF ~l.ok THEN [ok |-> FALSE, sector |-> a.sector, S |-> l.S]
         ELSE [ok |-> TRUE, sector |-> a.sector,
               S |-> bufcache_write(l.S, a.sector, l.cells, 0, BLOCK_SECTOR_SIZE)])))

\* the loop of inode_allocate_doubly_indirect over the second-level blocks
RECURSIVE inode_allocate_indirects(_, _, _, _, _, _)
inode_allocate_indirects(S, cells, i, last_i, count, g) ==
    IF i > last_i THEN [ok |-> TRUE, cells |-> cells, S |-> S]
    ELSE Bind(inode_allocate_indirect(S, cells[i], Min(count, INDIRECT_BLOCK_COUNT), g),
              LAMBDA a :
         IF ~a.ok THEN [ok |-> FALSE, cells |-> [cells EXCEPT ![i] = a.sector], S |-> a.S]
         ELSE inode_allocate_indirects(a.S, [cells EXCEPT ![i] = a.sector], i + 1, last_i,
                                       count - Min(count, INDIRECT_BLOCK_COUNT), g))

\* inode_allocate_doubly_indirect
inode_allocate_doubly_indirect(S, sector, count, g) ==
    Bind(inode_allocate_sector(S, sector, g), LAMBDA a :
    IF ~a.ok THEN [ok |-> FALSE, sector |-> a.sector, S |-> a.S]
    ELSE Bind(bufcache_read(a.S, a.sector, 0, BLOCK_SECTOR_SIZE), LAMBDA r :
         Bind(inode_allocate_indirects(r.S, r.data, 1,
                                       DIV_ROUND_UP(count, INDIRECT_BLOCK_COUNT),
                                       count, g), LAMBDA l :
         IF ~l.ok THEN [ok |-> FALSE, sector |-> a.sector, S |-> l.S]
         ELSE [ok |-> TRUE, sector |-> a.sector,
               S |-> bufcache_write(l.S, a.sector, l.cells, 0, BLOCK_SECTOR_SIZE)])))

\* inode_allocate, the doubly indirect tier: remaining sectors are still needed
inode_allocate_tier3(S, disk_inode, remaining, g) ==
    Bind(inode_allocate_doubly_indirect(
             S, disk_inode[OFS_DOUBLY],
             Min(remaining, INDIRECT_BLOCK_COUNT * INDIRECT_BLOCK_COUNT), g), LAMBDA a :
    [ok |-> a.ok,
     disk_inode |-> [disk_inode EXCEPT ![OFS_DOUBLY] = a.sector],
     S |-> IF a.ok /\ remaining > INDIRECT_BLOCK_COUNT * INDIRECT_BLOCK_COUNT
           THEN [a.S EXCEPT !.panic = TRUE] ELSE a.S])

\* inode_allocate, the indirect tier: remaining sectors are still needed
inode_allocate_tier2(S, disk_inode, remaining, g) ==
    Bind(inode_allocate_indirect(S, disk_inode[OFS_INDIRECT],
                                 Min(remaining, INDIRECT_BLOCK_COUNT), g), LAMBDA a :
    IF ~a.ok \/ remaining - Min(remaining, INDIRECT_BLOCK_COUNT) = 0
    THEN [ok |-> a.ok, disk_inode |-> [disk_inode EXCEPT ![OFS_INDIRECT] = a.sector],
          S |-> a.S]
    ELSE inode_allocate_tier3(a.S, [disk_inode EXCEPT ![OFS_INDIRECT] = a.sector],
                              remaining - Min(remaining, INDIRECT_BLOCK_COUNT), g))

\* inode_allocate: the sectors a file of length bytes needs, tier by tier
inode_allocate(S, disk_inode, length, g) ==
    IF length < 0 THEN [ok |-> FALSE, disk_inode |-> disk_inode, S |-> S]
    ELSE Bind(inode_allocate_sectors(S, disk_inode, 1,
                                     Min(bytes_to_sectors(length), DIRECT_BLOCK_COUNT), g),
              LAMBDA a :
         IF ~a.ok \/ bytes_to_sectors(length)
                       - Min(bytes_to_sectors(length), DIRECT_BLOCK_COUNT) = 0
         THEN [ok |-> a.ok, disk_inode |-> a.cells, S |-> a.S]
         ELSE inode_allocate_tier2(a.S, a.cells,
                                   bytes_to_sectors(length)
                                       - Min(bytes_to_sectors(length), DIRECT_BLOCK_COUNT),
                                   g))

\* inode_deallocate_sector
inode_deallocate_sector(S, sector) == free_map_release(S, sector)

\* the loops over inode_deallocate_sector: the pointers cells[i..last_i]
RECURSIVE inode_deallocate_sectors(_, _, _, _)
inode_deallocate_sectors(S, cells, i, last_i) ==
    IF i > last_i THEN S
    ELSE inode_deallocate_sectors(inode_deallocate_sector(S, cells[i]), cells, i + 1, last_i)

\* inode_deallocate_indirect
inode_deallocate_indirect(S, sector, count) ==
    Bind(bufcache_read(S, sector, 0, BLOCK_SECTOR_SIZE), LAMBDA r :
    inode_deallocate_sector(inode_deallocate_sectors(r.S, r.data, 1, count), sector))

\* the loop of inode_deallocate_doubly_indirect over the second-level blocks
RECURSIVE inode_deallocate_indirects(_, _, _, _, _)
inode_deallocate_indirects(S, cells, i, last_i, count) ==
    IF i > last_i THEN S
    ELSE inode_deallocate_indirects(
             inode_deallocate_indirect(S, cells[i], Min(count, INDIRECT_BLOCK_COUNT)),
             cells, i + 1, last_i, count - Min(count, INDIRECT_BLOCK_COUNT))

\* inode_deallocate_doubly_indirect
inode_deallocate_doubly_indirect(S, sector, count) ==
    Bind(bufcache_read(S, sector, 0, BLOCK_SECTOR_SIZE), LAMBDA r :
    inode_deallocate_sector(
        inode_deallocate_indirects(r.S, r.data, 1,
                                   DIV_ROUND_UP(count, INDIRECT_BLOCK_COUNT), count),
        sector))

\* inode_deallocate, the doubly indirect tier
inode_deallocate_tier3(S, disk_inode, remaining) ==
    Bind(inode_deallocate_doubly_indirect(
             S, disk_inode[OFS_DOUBLY],
             Min(remaining, INDIRECT_BLOCK_COUNT * INDIRECT_BLOCK_COUNT)), LAMBDA s3 :
    IF remaining > INDIRECT_BLOCK_COUNT * INDIRECT_BLOCK_COUNT
    THEN [s3 EXCEPT !.panic = TRUE] ELSE s3)

\* inode_deallocate, the indirect tier
inode_deallocate_tier2(S, disk_inode, remaining) ==
    Bind(inode_deallocate_indirect(S, disk_inode[OFS_INDIRECT],
                                   Min(remaining, INDIRECT_BLOCK_COUNT)), LAMBDA s2 :
    IF remaining - Min(remaining, INDIRECT_BLOCK_COUNT) = 0 THEN s2
    ELSE inode_deallocate_tier3(s2, disk_inode,
                                remaining - Min(remaining, INDIRECT_BLOCK_COUNT)))

\* inode_deallocate, the direct tier
inode_deallocate_tier1(S, disk_inode, remaining) ==
    Bind(inode_deallocate_sectors(S, disk_inode, 1, Min(remaining, DIRECT_BLOCK_COUNT)),
         LAMBDA s1 :
    IF remaining - Min(remaining, DIRECT_BLOCK_COUNT) = 0 THEN s1
    ELSE inode_deallocate_tier2(s1, disk_inode,
                                remaining - Min(remaining, DIRECT_BLOCK_COUNT)))

\* inode_deallocate: the sectors of the file whose inode is at sector
inode_deallocate(S, sector) ==
    Bind(bufcache_read(S, sector, 0, BLOCK_SECTOR_SIZE), LAMBDA r :
    inode_deallocate_tier1(r.S, r.data, bytes_to_sectors(r.data[OFS_LENGTH])))

\* disk_inode.isdir = isdir
inode_disk_isdir(disk_inode, isdir) ==
    [disk_inode EXCEPT ![OFS_ISDIR] = IF isdir THEN 1 ELSE 0]

\* inode_create: a zeroed on-disk inode with the directory flag it is given,
\* length and magic, its sectors allocated, written to its home sector
inode_create(S, sector, length, isdir, g) ==
    Bind(inode_allocate(S, inode_disk_isdir([Fill(0) EXCEPT ![OFS_LENGTH] = length,
                                                            ![OFS_MAGIC] = INODE_MAGIC],
                                            isdir),
                        length, g),
         LAMBDA a :
    IF a.ok
    THEN [ok |-> TRUE, S |-> bufcache_write(a.S, sector, a.disk_inode, 0, BLOCK_SECTOR_SIZE)]
    ELSE [ok |-> FALSE, S |-> a.S])

\* the position in the list of the open inode at sector, 0 when it is not open
open_index(list, sector) ==
    IF \E k \in 1..Len(list) : list[k].sector = sector
    THEN CHOOSE k \in 1..Len(list) :
             /\ list[k].sector = sector
             /\ \A j \in 1..(k - 1) : list[j].sector /= sector
    ELSE 0

\* inode_reopen
inode_reopen(list, k) == [list EXCEPT ![k].open_cnt = list[k].open_cnt + 1]

\* inode_open: the open inode is reopened, a new one is pushed to the front.
\* The new inode comes from malloc and its extending flag is not initialised:
\* u is whatever the memory held.  lock_init leaves inode_lock with no holder.
inode_open(list, sector, u) ==
    IF open_index(list, sector) /= 0
    THEN inode_reopen(list, open_index(list, sector))
    ELSE <<[sector |-> sector, open_cnt |-> 1, deny_write_cnt |-> 0, removed |-> FALSE,
            extending |-> u, inode_lock |-> NULL]>>
         \o list

\* inode_remove
inode_remove(list, k) == [list EXCEPT ![k].removed = TRUE]

\* inode_close: the last closer takes the inode off the list and, when it was
\* removed, releases the home sector and then the sectors of the file
inode_close(S, list, k) ==
    IF list[k].open_cnt - 1 = 0
    THEN [list |-> SubSeq(list, 1, k - 1) \o SubSeq(list, k + 1, Len(list)),
          S |-> IF list[k].removed
                THEN inode_deallocate(free_map_release(S, list[k].sector), list[k].sector)
                ELSE S]
    ELSE [list |-> [list EXCEPT ![k].open_cnt = list[k].open_cnt - 1], S |-> S]

\* inode_deny_write: the count goes up, then the assertion
inode_deny_write(list, k) ==
    [list |-> [list EXCEPT ![k].deny_write_cnt = list[k].deny_write_cnt + 1],
     panic |-> ~(list[k].deny_write_cnt + 1 <= list[k].open_cnt)]

\* inode_allow_write without the decrement
inode_allow_write_keeps(list, k) ==
    [list |-> list,
     panic |-> ~(list[k].deny_write_cnt > 0 /\ list[k].deny_write_cnt <= list[k].open_cnt)]

\* inode_allow_write: the two assertions, then the count goes down
inode_allow_write(list, k) ==
    IF list[k].deny_write_cnt > 0 /\ list[k].deny_write_cnt <= list[k].open_cnt
    THEN [list |-> [list EXCEPT ![k].deny_write_cnt = list[k].deny_write_cnt - 1],
          panic |-> FALSE]
    ELSE [list |-> list, panic |-> TRUE]

\* inode_is_dir
inode_is_dir(S, sector) ==
    Bind(bufcache_read(S, sector, 0, BLOCK_SECTOR_SIZE), LAMBDA r :
    [S |-> r.S, isdir |-> r.data[OFS_ISDIR] /= 0])

\* inode_length reading the field before length
inode_length_isdir(S, sector) ==
    Bind(bufcache_read(S, sector, 0, BLOCK_SECTOR_SIZE), LAMBDA r :
    [S |-> r.S, length |-> r.data[OFS_ISDIR]])

\* inode_length
inode_length(S, sector) ==
    Bind(bufcache_read(S, sector, 0, BLOCK_SECTOR_SIZE), LAMBDA r :
    [S |-> r.S, length |-> r.data[OFS_LENGTH]])

\* the chunk of one iteration of the loops of inode_read_at and inode_write_at
chunk_size(size, offset, length) ==
    Min(size, Min(length - offset, BLOCK_SECTOR_SIZE - (offset % BLOCK_SECTOR_SIZE)))

\* the while loop of inode_read_at; buffer holds the bytes read so far
RECURSIVE inode_read_loop(_, _, _, _, _)
inode_read_loop(S, sector, size, offset, buffer) ==
    IF ~(size > 0) THEN [S |-> S, buffer |-> buffer]
    ELSE Bind(byte_to_sector(S, sector, offset), LAMBDA b :
         Bind(inode_length(b.S, sector), LAMBDA l :
         IF chunk_size(size, offset, l.length) <= 0 THEN [S |-> l.S, buffer |-> buffer]
         ELSE Bind(bufcache_read(l.S, b.rv, offset % BLOCK_SECTOR_SIZE,
                                 chunk_size(size, offset, l.length)), LAMBDA r :
              inode_read_loop(r.S, sector, size - chunk_size(size, offset, l.length),
                              offset + chunk_size(size, offset, l.length),
                              buffer \o r.data))))

\* inode_read_at: the bytes read; their number is the return value
inode_read_at(S, sector, size, offset) == inode_read_loop(S, sector, size, offset, <<>>)

\* the while loop of inode_write_at
RECURSIVE inode_write_loop(_, _, _, _, _, _)
inode_write_loop(S, sector, buffer, size, offset, bytes_written) ==
    IF ~(size > 0) THEN [S |-> S, ret |-> bytes_written]
    ELSE Bind(byte_to_sector(S, sector, offset), LAMBDA b :
         Bind(inode_length(b.S, sector), LAMBDA l :
         IF chunk_size(size, offset, l.length) <= 0 THEN [S |-> l.S, ret |-> bytes_written]
         ELSE inode_write_loop(
                  bufcache_write(l.S, b.rv,
                                 SubSeq(buffer, bytes_written + 1,
                                        bytes_written + chunk_size(size, offset, l.length)),
                                 offset % BLOCK_SECTOR_SIZE,
                                 chunk_size(size, offset, l.length)),
                  sector, buffer, size - chunk_size(size, offset, l.length),
                  offset + chunk_size(size, offset, l.length),
                  bytes_written + chunk_size(size, offset, l.length))))

\* inode_write_at, file extension: the sectors up to offset + size are
\* allocated and the new length is stored; then the loop
inode_write_extend(S, sector, buffer, size, offset, g) ==
    Bind(bufcache_read(S, sector, 0, BLOCK_SECTOR_SIZE), LAMBDA r :
    Bind(inode_allocate(r.S, r.data, offset + size, g), LAMBDA a :
    IF ~a.ok THEN [S |-> a.S, ret |-> 0]
    ELSE inode_write_loop(
             bufcache_write(a.S, sector,
                            [a.disk_inode EXCEPT ![OFS_LENGTH] = offset + size],
                            0, BLOCK_SECTOR_SIZE),
             sector, buffer, size, offset, 0)))

\* inode_write_at without the test of deny_write_cnt
inode_write_at_undenied(S, inode, buffer, size, offset, g) ==
    Bind(byte_to_sector(S, inode.sector, offset + size - 1), LAMBDA b :
    IF b.rv = NO_SECTOR
    THEN inode_write_extend(b.S, inode.sector, buffer, size, offset, g)
    ELSE inode_write_loop(b.S, inode.sector, buffer, size, offset, 0))

\* inode_write_at: nothing when writes are denied; a write that ends past the
\* end of the file extends it first
inode_write_at(S, inode, buffer, size, offset, g) ==
    IF inode.deny_write_cnt /= 0 THEN [S |-> S, ret |-> 0]
    ELSE Bind(byte_to_sector(S, inode.sector, offset + size - 1), LAMBDA b :
         IF b.rv = NO_SECTOR
         THEN inode_write_extend(b.S, inode.sector, buffer, size, offset, g)
         ELSE inode_write_loop(b.S, inode.sector, buffer, size, offset, 0))

\* inode_write_at, the extending flag of the inode when the call returns: set
\* on the extension path and assigned nowhere else
inode_write_at_extending(S, inode, size, offset) ==
    IF inode.deny_write_cnt /= 0 THEN inode.extending
    ELSE IF byte_to_sector(S, inode.sector, offset + size - 1).rv = NO_SECTOR THEN TRUE
    ELSE inode.extending

(* ----------------------- inode-layer operations ----------------------- *)
\* the lengths, sizes and offsets the operations are called with
Lengths ==
    {0, 1, BLOCK_SECTOR_SIZE + 1, 2 * BLOCK_SECTOR_SIZE + 1,
     (MaxFileSectors - 1) * BLOCK_SECTOR_SIZE + 1}

Offsets == {0, 2, 2 * BLOCK_SECTOR_SIZE}

Garbage == 0..MaxGarbage

NoOp ==
    [op |-> "none", sector |-> NULL, size |-> 0, offset |-> 0, buffer |-> <<>>,
     ret |-> 0, out |-> <<>>, rel |-> <<>>, last_close |-> FALSE, isdir |-> FALSE,
     denied |-> FALSE, fd |-> 0, hits |-> 0, accesses |-> 0, cold |-> FALSE,
     returned |-> TRUE, fds |-> <<>>]

\* the bytes the k-th operation writes: each position carries its own value
write_buffer(k, size) == [j \in 1..size |-> 100 * k + j]

\* the operation has run and left the file system S
Commit(S) ==
    /\ bufcache' = S.bc
    /\ disk' = S.d
    /\ free_map' = S.fm
    /\ panicked' = S.panic
    /\ nops' = nops + 1
    /\ UNCHANGED <<cache_lock, thr, logical, nwrites, ncalls>>

CanOperate ==
    /\ ~panicked /\ nops < MaxOps
    /\ cache_lock = NULL /\ \A t \in Threads : thr[t].pc = "idle"

\* the third argument filesys_create gives inode_create
filesys_create_inode_isdir == TRUE

\* filesys_create: a home sector from the free-map, inode_create, the directory
\* entry; the home sector is released when inode_create fails.  isdir is false
\* for the create system call and true for mkdir.
filesys_create(S, length, isdir, g) ==
    Bind(free_map_allocate(S.fm), LAMBDA inode_sector :
    IF inode_sector = NULL THEN [ok |-> FALSE, sector |-> NULL, S |-> S]
    ELSE Bind(inode_create([S EXCEPT !.fm[inode_sector] = TRUE], inode_sector, length,
                           filesys_create_inode_isdir, g), LAMBDA c :
         IF c.ok THEN [ok |-> TRUE, sector |-> inode_sector, S |-> c.S]
         ELSE [ok |-> FALSE, sector |-> NULL,
               S |-> free_map_release(c.S, inode_sector)]))

\* a call of filesys_create: the create system call, or mkdir with size 0
Create(length, isdir, g) ==
    /\ UNCHANGED proc
    /\ CanOperate /\ Cardinality(homes) < MaxInodes
    /\ isdir => length = 0
    /\ LET c == filesys_create(FsState(bufcache, disk, free_map), length, isdir, g)
       IN /\ Commit(c.S)
          /\ homes' = IF c.ok THEN homes \cup {c.sector} ELSE homes
          /\ last' = [NoOp EXCEPT !.op = "create", !.size = length, !.isdir = isdir,
                                  !.sector = c.sector, !.ret = IF c.ok THEN 1 ELSE 0]
    /\ UNCHANGED <<open_inodes, deniers>>

\* inode_open of a file the directory names
InodeOpen(sector) ==
    /\ UNCHANGED proc
    /\ CanOperate /\ sector \in homes
    /\ \A k \in 1..Len(open_inodes) :
          open_inodes[k].sector = sector => open_inodes[k].open_cnt < MaxOpenCnt
    /\ \E u \in BOOLEAN : open_inodes' = inode_open(open_inodes, sector, u)
    /\ last' = [NoOp EXCEPT !.op = "open", !.sector = sector]
    /\ nops' = nops + 1
    /\ UNCHANGED <<bufcache, cache_lock, disk, thr, logical, nwrites, ncalls, panicked,
                   free_map, homes, deniers>>

\* inode_read_at on an open inode
InodeReadAt(k, size, offset) ==
    /\ UNCHANGED proc
    /\ CanOperate /\ k \in 1..Len(open_inodes)
    /\ LET r == inode_read_at(FsState(bufcache, disk, free_map), open_inodes[k].sector,
                              size, offset)
       IN /\ Commit(r.S)
          /\ last' = [NoOp EXCEPT !.op = "read", !.sector = open_inodes[k].sector,
                                  !.size = size, !.offset = offset,
                                  !.ret = Len(r.buffer), !.out = r.buffer]
    /\ UNCHANGED <<open_inodes, homes, deniers>>

\* inode_write_at on an open inode
InodeWriteAt(k, size, offset, g) ==
    /\ UNCHANGED proc
    /\ CanOperate /\ k \in 1..Len(open_inodes)
    /\ offset + size <= MaxFileSectors * BLOCK_SECTOR_SIZE
    /\ LET buffer == write_buffer(nops + 1, size)
           w == inode_write_at(FsState(bufcache, disk, free_map), open_inodes[k], buffer,
                               size, offset, g)
       IN /\ Commit(w.S)
          /\ last' = [NoOp EXCEPT !.op = "write", !.sector = open_inodes[k].sector,
                                  !.size = size, !.offset = offset, !.buffer = buffer,
                                  !.ret = w.ret,
                                  !.denied = (open_inodes[k].deny_write_cnt /= 0)]
    /\ open_inodes' =
          [open_inodes EXCEPT ![k].extending =
              inode_write_at_extending(FsState(bufcache, disk, free_map), open_inodes[k],
                                       size, offset)]
    /\ UNCHANGED <<homes, deniers>>

\* filesys_remove: the directory entry goes and inode_remove marks the inode
InodeRemove(k) ==
    /\ UNCHANGED proc
    /\ CanOperate /\ k \in 1..Len(open_inodes)
    /\ open_inodes[k].sector \in homes
    /\ open_inodes' = inode_remove(open_inodes, k)
    /\ homes' = homes \ {open_inodes[k].sector}
    /\ last' = [NoOp EXCEPT !.op = "remove", !.sector = open_inodes[k].sector]
    /\ nops' = nops + 1
    /\ UNCHANGED <<bufcache, cache_lock, disk, thr, logical, nwrites, ncalls, panicked,
                   free_map, deniers>>

\* inode_deny_write by an opener that has not denied yet
InodeDenyWrite(k) ==
    /\ UNCHANGED proc
    /\ CanOperate /\ k \in 1..Len(open_inodes)
    /\ deniers[open_inodes[k].sector] < open_inodes[k].open_cnt
    /\ open_inodes' = inode_deny_write(open_inodes, k).list
    /\ panicked' = inode_deny_write(open_inodes, k).panic
    /\ deniers' = [deniers EXCEPT ![open_inodes[k].sector] = @ + 1]
    /\ last' = [NoOp EXCEPT !.op = "deny", !.sector = open_inodes[k].sector]
    /\ nops' = nops + 1
    /\ UNCHANGED <<bufcache, cache_lock, disk, thr, logical, nwrites, ncalls,
                   free_map, homes>>

\* inode_allow_write by an opener whose deny is pending
InodeAllowWrite(k) ==
    /\ UNCHANGED proc
    /\ CanOperate /\ k \in 1..Len(open_inodes)
    /\ deniers[open_inodes[k].sector] > 0
    /\ open_inodes' = inode_allow_write(open_inodes, k).list
    /\ panicked' = inode_allow_write(open_inodes, k).panic
    /\ deniers' = [deniers EXCEPT ![open_inodes[k].sector] = @ - 1]
    /\ last' = [NoOp EXCEPT !.op = "allow", !.sector = open_inodes[k].sector]
    /\ nops' = nops + 1
    /\ UNCHANGED <<bufcache, cache_lock, disk, thr, logical, nwrites, ncalls,
                   free_map, homes>>

\* inode_close of an open inode, by an opener that has no deny pending
InodeClose(k) ==
    /\ UNCHANGED proc
    /\ CanOperate /\ k \in 1..Len(open_inodes)
    /\ deniers[open_inodes[k].sector] < open_inodes[k].open_cnt
    /\ LET c == inode_close(FsState(bufcache, disk, free_map), open_inodes, k)
       IN /\ Commit(c.S)
          /\ open_inodes' = c.list
          /\ last' = [NoOp EXCEPT !.op = "close", !.sector = open_inodes[k].sector,
                                  !.rel = c.S.rel,
                                  !.last_close = (open_inodes[k].open_cnt = 1
                                                  /\ open_inodes[k].removed)]
    /\ UNCHANGED <<homes, deniers>>

(* ---------------------- files and file descriptors -------------------- *)
\* the descriptors a process opens
MaxFds == 2

\* the first descriptor number a thread hands out: 0 and 1 are the console
FirstFd == 2

\* the descriptor numbers the system calls are given: those the process may
\* hold and one it never holds
Fds == FirstFd..(FirstFd + MaxFds)

\* a process that has opened nothing and has no children: it runs user code
NoProc ==
    [file_descriptors |-> <<>>, fd_count |-> FirstFd, alive |-> TRUE, exit_code |-> 0,
     pc |-> "user", i |-> 0, to_free |-> <<>>, children |-> <<>>,
     li |-> [sema |-> 0, success |-> FALSE, created |-> FALSE],
     exec_ret |-> [error |-> FALSE, tid |-> 0]]

\* a system-call argument is a machine word; the handlers read it as int or unsigned
to_unsigned(x) == x % UINT_MOD
to_int(u) == IF u >= UINT_MOD \div 2 THEN u - UINT_MOD ELSE u

\* find_fd: the place in the list of the descriptor numbered fd, 0 when there is none
find_fd(fds, fd) ==
    IF \E i \in 1..Len(fds) : fds[i].fd = fd
    THEN CHOOSE i \in 1..Len(fds) :
             /\ fds[i].fd = fd
             /\ \A j \in 1..(i - 1) : fds[j].fd /= fd
    ELSE 0

\* add_file_descriptor: the file gets the next number and goes to the back
add_file_descriptor(p, file) ==
    [p EXCEPT !.file_descriptors = Append(@, [fd |-> p.fd_count, curr_file |-> file]),
              !.fd_count = @ + 1]

\* file_open: a handle on the inode, at position 0
file_open(sector) == [sector |-> sector, pos |-> 0]

\* file_read: inode_read_at at the position, which advances by the bytes read
file_read(S, file, size) ==
    Bind(inode_read_at(S, file.sector, size, file.pos), LAMBDA r :
    [S |-> r.S, buffer |-> r.buffer,
     file |-> [file EXCEPT !.pos = file.pos + Len(r.buffer)]])

\* file_write: inode_write_at at the position, which advances by the bytes written
file_write(S, inode, file, buffer, size, g) ==
    Bind(inode_write_at(S, inode, buffer, size, file.pos, g), LAMBDA w :
    [S |-> w.S, ret |-> w.ret, file |-> [file EXCEPT !.pos = file.pos + w.ret],
     extending |-> inode_write_at_extending(S, inode, size, file.pos)])

\* file_seek: the position is set; off_t is a signed integer
file_seek(file, new_pos) == [file EXCEPT !.pos = to_int(new_pos)]

\* syscall_seek without the test of the sign of the position
syscall_seek_unsigned(fds, fd, position) ==
    IF find_fd(fds, fd) = 0 THEN [exit |-> TRUE, fds |-> fds]
    ELSE [exit |-> FALSE,
          fds |-> [fds EXCEPT ![find_fd(fds, fd)].curr_file = file_seek(@, position)]]

\* syscall_seek: exception_exit(-1) for a position that is negative as an int
\* and for a descriptor the process does not hold; file_seek otherwise
syscall_seek(fds, fd, position) ==
    IF to_int(position) < 0 THEN [exit |-> TRUE, fds |-> fds]
    ELSE IF find_fd(fds, fd) = 0 THEN [exit |-> TRUE, fds |-> fds]
    ELSE [exit |-> FALSE,
          fds |-> [fds EXCEPT ![find_fd(fds, fd)].curr_file = file_seek(@, position)]]

\* exception_exit: the exit code is stored and the thread exits; process_exit
\* empties the list of descriptors
exception_exit(p, exit_code) ==
    [p EXCEPT !.exit_code = exit_code, !.alive = FALSE, !.file_descriptors = <<>>]

\* process_exit: file_close, that is inode_close, of every descriptor's file
RECURSIVE close_files(_, _, _)
close_files(S, list, fds) ==
    IF fds = <<>> THEN [S |-> S, list |-> list]
    ELSE Bind(inode_close(S, list, open_index(list, Head(fds).curr_file.sector)),
              LAMBDA c : close_files(c.S, c.list, Tail(fds)))

\* reads of size bytes from the start of the file until a read returns nothing
RECURSIVE read_to_end(_, _, _)
read_to_end(S, file, size) ==
    Bind(file_read(S, file, size), LAMBDA r :
    IF Len(r.buffer) = 0 \/ r.S.panic THEN [S |-> r.S, file |-> r.file]
    ELSE read_to_end(r.S, r.file, size))

\* the bytes of buffer written one write call each
RECURSIVE write_bytes(_, _, _, _, _, _)
write_bytes(S, inode, file, buffer, count, g) ==
    IF count = 0 \/ S.panic THEN [S |-> S, file |-> file, extending |-> inode.extending]
    ELSE Bind(file_write(S, inode, file,
                         SubSeq(buffer, Len(buffer) - count + 1, Len(buffer) - count + 1),
                         1, g), LAMBDA w :
         write_bytes(w.S, [inode EXCEPT !.extending = w.extending], w.file, buffer,
                     count - 1, g))

\* the process can issue a system call
CanCall == CanOperate /\ proc.alive

\* the open system call on a file the directory names: filesys_open, that is
\* inode_open and file_open, then add_file_descriptor
FilesysOpen(sector) ==
    /\ CanCall /\ sector \in homes
    /\ Len(proc.file_descriptors) < MaxFds
    /\ \A k \in 1..Len(open_inodes) :
          open_inodes[k].sector = sector => open_inodes[k].open_cnt < MaxOpenCnt
    /\ \E u \in BOOLEAN : open_inodes' = inode_open(open_inodes, sector, u)
    /\ proc' = add_file_descriptor(proc, file_open(sector))
    /\ last' = [NoOp EXCEPT !.op = "fopen", !.sector = sector, !.fd = proc.fd_count]
    /\ nops' = nops + 1
    /\ UNCHANGED <<bufcache, cache_lock, disk, thr, logical, nwrites, ncalls, panicked,
                   free_map, homes, deniers>>

\* file_read through the i-th descriptor
FileRead(i, size) ==
    /\ CanCall /\ i \in 1..Len(proc.file_descriptors)
    /\ LET r == file_read(FsState(bufcache, disk, free_map),
                          proc.file_descriptors[i].curr_file, size)
       IN /\ Commit(r.S)
          /\ proc' = [proc EXCEPT !.file_descriptors[i].curr_file = r.file]
          /\ last' = [NoOp EXCEPT !.op = "fread", !.fd = proc.file_descriptors[i].fd,
                                  !.sector = proc.file_descriptors[i].curr_file.sector,
                                  !.size = size,
                                  !.offset = proc.file_descriptors[i].curr_file.pos,
                                  !.ret = Len(r.buffer), !.out = r.buffer]
    /\ UNCHANGED <<open_inodes, homes, deniers>>

\* file_write through the i-th descriptor
FileWrite(i, size, g) ==
    /\ CanCall /\ i \in 1..Len(proc.file_descriptors)
    /\ proc.file_descriptors[i].curr_file.pos >= 0
    /\ proc.file_descriptors[i].curr_file.pos + size <= MaxFileSectors * BLOCK_SECTOR_SIZE
    /\ LET file == proc.file_descriptors[i].curr_file
           k == open_index(open_inodes, file.sector)
           buffer == write_buffer(nops + 1, size)
           w == file_write(FsState(bufcache, disk, free_map), open_inodes[k], file,
                           buffer, size, g)
       IN /\ Commit(w.S)
          /\ proc' = [proc EXCEPT !.file_descriptors[i].curr_file = w.file]
          /\ open_inodes' = [open_inodes EXCEPT ![k].extending = w.extending]
          /\ last' = [NoOp EXCEPT !.op = "fwrite", !.fd = proc.file_descriptors[i].fd,
                                  !.sector = file.sector, !.size = size,
                                  !.offset = file.pos, !.buffer = buffer, !.ret = w.ret]
    /\ UNCHANGED <<homes, deniers>>

\* the seek system call
SyscallSeek(fd, position) ==
    /\ CanCall
    /\ LET r == syscall_seek(proc.file_descriptors, fd, to_unsigned(position))
           c == close_files(FsState(bufcache, disk, free_map), open_inodes, r.fds)
       IN IF r.exit
          THEN /\ Commit(c.S)
               /\ open_inodes' = c.list
               /\ proc' = exception_exit(proc, -1)
               /\ last' = [NoOp EXCEPT !.op = "seek", !.fd = fd, !.offset = position,
                                       !.returned = FALSE, !.fds = r.fds]
          ELSE /\ proc' = [proc EXCEPT !.file_descriptors = r.fds]
               /\ last' = [NoOp EXCEPT !.op = "seek", !.fd = fd, !.offset = position,
                                       !.fds = r.fds]
               /\ nops' = nops + 1
               /\ UNCHANGED <<bufcache, cache_lock, disk, thr, logical, nwrites, ncalls,
                              panicked, free_map, open_inodes>>
    /\ UNCHANGED <<homes, deniers>>

\* the close system call on the i-th descriptor: file_close, then remove_fd
FileClose(i) ==
    /\ CanCall /\ i \in 1..Len(proc.file_descriptors)
    /\ LET c == inode_close(FsState(bufcache, disk, free_map), open_inodes,
                            open_index(open_inodes,
                                       proc.file_descriptors[i].curr_file.sector))
       IN /\ Commit(c.S)
          /\ open_inodes' = c.list
          /\ proc' = [proc EXCEPT !.file_descriptors =
                         SubSeq(@, 1, i - 1) \o SubSeq(@, i + 1, Len(@))]
          /\ last' = [NoOp EXCEPT !.op = "fclose", !.fd = proc.file_descriptors[i].fd,
                                  !.sector = proc.file_descriptors[i].curr_file.sector]
    /\ UNCHANGED <<homes, deniers>>

\* the reset system call: bufcache_reset
SyscallReset ==
    /\ CanCall
    /\ bufcache' = bufcache_reset(bufcache)
    /\ last' = [NoOp EXCEPT !.op = "reset"]
    /\ nops' = nops + 1
    /\ UNCHANGED <<cache_lock, disk, thr, logical, nwrites, ncalls, panicked,
                   free_map, open_inodes, homes, deniers, proc>>

\* a sequential pass over the file of the i-th descriptor: seek to 0, then
\* reads of size bytes to the end; the hit and access counts are taken before
\* and after
SeqRead(i, size) ==
    /\ CanCall /\ i \in 1..Len(proc.file_descriptors)
    /\ LET file == file_seek(proc.file_descriptors[i].curr_file, 0)
           r == read_to_end(FsState(bufcache, disk, free_map), file, size)
       IN /\ Commit(r.S)
          /\ proc' = [proc EXCEPT !.file_descriptors[i].curr_file = r.file]
          /\ last' = [NoOp EXCEPT !.op = "seqread", !.fd = proc.file_descriptors[i].fd,
                                  !.sector = file.sector, !.size = size,
                                  !.ret = r.file.pos,
                                  !.hits = r.S.bc.num_hits - bufcache.num_hits,
                                  !.accesses = r.S.bc.num_accesses - bufcache.num_accesses,
                                  !.cold = (last.op = "reset")]
    /\ UNCHANGED <<open_inodes, homes, deniers>>

\* the whole file of the i-th descriptor, just opened, written one byte per
\* write call; the hit and access counts are taken before and after
SeqWrite(i, g) ==
    /\ CanCall /\ i \in 1..Len(proc.file_descriptors)
    /\ proc.file_descriptors[i].curr_file.pos = 0
    /\ LET file == proc.file_descriptors[i].curr_file
           k == open_index(open_inodes, file.sector)
           S == FsState(bufcache, disk, free_map)
           length == inode_length(S, file.sector).length
           buffer == write_buffer(nops + 1, length)
           w == write_bytes(inode_length(S, file.sector).S, open_inodes[k], file, buffer,
                            length, g)
       IN /\ length <= MaxFileSectors * BLOCK_SECTOR_SIZE
          /\ Commit(w.S)
          /\ proc' = [proc EXCEPT !.file_descriptors[i].curr_file = w.file]
          /\ open_inodes' = [open_inodes EXCEPT ![k].extending = w.extending]
          /\ last' = [NoOp EXCEPT !.op = "seqwrite", !.fd = proc.file_descriptors[i].fd,
                                  !.sector = file.sector, !.size = length,
                                  !.buffer = buffer, !.ret = w.file.pos,
                                  !.hits = w.S.bc.num_hits - S.bc.num_hits,
                                  !.accesses = w.S.bc.num_accesses - S.bc.num_accesses]
    /\ UNCHANGED <<homes, deniers>>

(* ------------------- inode_open by several threads -------------------- *)
\* inode_open, the search of open_inodes: an inode found is reopened and
\* returned; otherwise the thread goes on to malloc and list_push_front
OpenScan(t, sector) ==
    /\ UNCHANGED proc
    /\ ~panicked /\ nops < MaxOps
    /\ thr[t].pc = "idle" /\ sector \in homes
    /\ \A k \in 1..Len(open_inodes) : open_inodes[k].open_cnt < MaxOpenCnt
    /\ IF open_index(open_inodes, sector) /= 0
       THEN /\ open_inodes' = inode_reopen(open_inodes, open_index(open_inodes, sector))
            /\ last' = [NoOp EXCEPT !.op = "open", !.sector = sector]
            /\ nops' = nops + 1
            /\ UNCHANGED thr
       ELSE /\ thr' = [thr EXCEPT ![t].pc = "open_new", ![t].sector = sector]
            /\ UNCHANGED <<open_inodes, last, nops>>
    /\ UNCHANGED <<bufcache, cache_lock, disk, logical, nwrites, ncalls, panicked,
                   free_map, homes, deniers>>

\* inode_open, after the search found nothing: the new inode is initialised
\* and pushed to the front of open_inodes
OpenInsert(t) ==
    /\ UNCHANGED proc
    /\ thr[t].pc = "open_new"
    /\ \E u \in BOOLEAN :
          open_inodes' = <<[sector |-> thr[t].sector, open_cnt |-> 1, deny_write_cnt |-> 0,
                            removed |-> FALSE, extending |-> u,
                            inode_lock |-> NULL]>> \o open_inodes
    /\ thr' = [thr EXCEPT ![t] = IdleThr]
    /\ last' = [NoOp EXCEPT !.op = "open", !.sector = thr[t].sector, !.ret = 1]
    /\ nops' = nops + 1
    /\ UNCHANGED <<bufcache, cache_lock, disk, logical, nwrites, ncalls, panicked,
                   free_map, homes, deniers>>

\* inode_close while other threads may be inside inode_open
CloseAmongOpens(k) ==
    /\ UNCHANGED proc
    /\ ~panicked /\ nops < MaxOps
    /\ k \in 1..Len(open_inodes)
    /\ LET c == inode_close(FsState(bufcache, disk, free_map), open_inodes, k)
       IN /\ bufcache' = c.S.bc
          /\ disk' = c.S.d
          /\ free_map' = c.S.fm
          /\ panicked' = c.S.panic
          /\ open_inodes' = c.list
          /\ last' = [NoOp EXCEPT !.op = "close", !.sector = open_inodes[k].sector]
    /\ nops' = nops + 1
    /\ UNCHANGED <<cache_lock, thr, logical, nwrites, ncalls, homes, deniers>>

(* ---------------- inode_write_at by several threads ------------------ *)
\* the sizes the threads write
WriteSizes == {1, BLOCK_SECTOR_SIZE + 1}

\* the sectors a call took from the free-map, one flag for each device sector
taken(fm, fm2) == [j \in 1..(MaxDevSector + 1) |-> ~fm[j - 1] /\ fm2[j - 1]]

\* the file system is S now
Store(S) ==
    /\ bufcache' = S.bc
    /\ disk' = S.d
    /\ free_map' = S.fm
    /\ panicked' = S.panic
    /\ UNCHANGED <<cache_lock, logical, nwrites, ncalls, open_inodes, homes, last,
                   deniers, proc>>

\* a thread that has returned from inode_write_at with ret
returned_thr(th, ret) == [th EXCEPT !.pc = "w_done", !.i = ret]

\* inode_write_at up to the copy of the on-disk inode: 0 when writes are denied;
\* the loop and the return when the write ends inside the file; otherwise the
\* on-disk inode is read into a buffer of the caller.  Each thread calls once.
WriteBegin(t, k, size, offset) ==
    /\ ~panicked /\ nops < MaxOps /\ cache_lock = NULL
    /\ thr[t].pc = "idle"
    /\ k \in 1..Len(open_inodes)
    /\ offset + size <= MaxFileSectors * BLOCK_SECTOR_SIZE
    /\ nops' = nops + 1
    /\ LET S == FsState(bufcache, disk, free_map)
           buffer == write_buffer(nops + 1, size)
           call == [IdleThr EXCEPT !.kind = "write", !.sector = open_inodes[k].sector,
                                   !.length = size, !.offset = offset, !.buffer = buffer]
       IN IF open_inodes[k].deny_write_cnt /= 0
          THEN /\ thr' = [thr EXCEPT ![t] = returned_thr(call, 0)]
               /\ Store(S)
          ELSE Bind(byte_to_sector(S, open_inodes[k].sector, offset + size - 1), LAMBDA b :
               IF b.rv = NO_SECTOR
               THEN Bind(bufcache_read(b.S, open_inodes[k].sector, 0, BLOCK_SECTOR_SIZE),
                         LAMBDA r :
                    /\ thr' = [thr EXCEPT ![t] = [call EXCEPT !.pc = "w_read", !.wr = TRUE,
                                                              !.snap = r.data]]
                    /\ Store(r.S))
               ELSE Bind(inode_write_loop(b.S, open_inodes[k].sector, buffer, size, offset, 0),
                         LAMBDA w :
                    /\ thr' = [thr EXCEPT ![t] = returned_thr(call, w.ret)]
                    /\ Store(w.S)))

\* inode_write_at, file extension: inode_allocate on the caller's copy of the
\* on-disk inode; the call returns 0 when it fails
WriteAllocate(t, g) ==
    /\ ~panicked /\ thr[t].pc = "w_read"
    /\ Bind(inode_allocate(FsState(bufcache, disk, free_map), thr[t].snap,
                           thr[t].offset + thr[t].length, g), LAMBDA a :
          /\ thr' = [thr EXCEPT ![t] =
                        IF a.ok THEN [thr[t] EXCEPT !.pc = "w_alloc",
                                                    !.snap = a.disk_inode,
                                                    !.need = taken(free_map, a.S.fm)]
                        ELSE returned_thr(thr[t], 0)]
          /\ Store(a.S))
    /\ UNCHANGED nops

\* inode_write_at, file extension: the new length goes into the caller's copy,
\* the copy is written to the inode's sector; then the loop and the return
WriteStore(t) ==
    /\ ~panicked /\ thr[t].pc = "w_alloc"
    /\ Bind(inode_write_loop(
                bufcache_write(FsState(bufcache, disk, free_map), thr[t].sector,
                               [thr[t].snap EXCEPT
                                   ![OFS_LENGTH] = thr[t].offset + thr[t].length],
                               0, BLOCK_SECTOR_SIZE),
                thr[t].sector, thr[t].buffer, thr[t].length, thr[t].offset, 0), LAMBDA w :
          /\ thr' = [thr EXCEPT ![t] = returned_thr(thr[t], w.ret)]
          /\ Store(w.S))
    /\ UNCHANGED nops

(* ------------------- inode_write_at and inode_lock -------------------- *)
\* a thread calls inode_write_at and reaches lock_acquire of the inode's lock
LockedWriteCall(t, k, size, offset) ==
    /\ ~panicked /\ nops < MaxOps /\ cache_lock = NULL
    /\ thr[t].pc = "idle"
    /\ k \in 1..Len(open_inodes)
    /\ offset + size <= MaxFileSectors * BLOCK_SECTOR_SIZE
    /\ thr' = [thr EXCEPT ![t] =
                  [IdleThr EXCEPT !.pc = "w_lock", !.kind = "write",
                                  !.sector = open_inodes[k].sector,
                                  !.length = size, !.offset = offset,
                                  !.buffer = write_buffer(nops + 1, size)]]
    /\ nops' = nops + 1
    /\ UNCHANGED <<bufcache, cache_lock, disk, logical, nwrites, ncalls, panicked,
                   free_map, open_inodes, homes, last, deniers, proc>>

\* inode_write_at from lock_acquire to the return: the thread goes on when
\* nobody holds inode_lock; lock_release is on the path of a denied write only
LockedWrite(t, g) ==
    /\ ~panicked /\ thr[t].pc = "w_lock"
    /\ open_index(open_inodes, thr[t].sector) /= 0
    /\ open_inodes[open_index(open_inodes, thr[t].sector)].inode_lock = NULL
    /\ LET k == open_index(open_inodes, thr[t].sector)
           w == inode_write_at(FsState(bufcache, disk, free_map), open_inodes[k],
                               thr[t].buffer, thr[t].length, thr[t].offset, g)
       IN /\ bufcache' = w.S.bc
          /\ disk' = w.S.d
          /\ free_map' = w.S.fm
          /\ panicked' = w.S.panic
          /\ last' = [NoOp EXCEPT !.op = "write", !.sector = thr[t].sector,
                                  !.size = thr[t].length, !.offset = thr[t].offset,
                                  !.buffer = thr[t].buffer, !.ret = w.ret,
                                  !.denied = (open_inodes[k].deny_write_cnt /= 0)]
          /\ open_inodes' =
                [open_inodes EXCEPT
                    ![k].inode_lock = IF open_inodes[k].deny_write_cnt /= 0 THEN NULL ELSE t,
                    ![k].extending =
                        inode_write_at_extending(FsState(bufcache, disk, free_map),
                                                 open_inodes[k], thr[t].length,
                                                 thr[t].offset)]
    /\ thr' = [thr EXCEPT ![t] = IdleThr]
    /\ UNCHANGED <<cache_lock, logical, nwrites, ncalls, homes, nops, deniers, proc>>

(* ------------------------ processes and children --------------------- *)
\* the children a process starts
MaxChildren == 2

\* every variable but proc
other_vars ==
    <<bufcache, cache_lock, disk, thr, logical, nwrites, ncalls, panicked,
      free_map, open_inodes, homes, last, nops, deniers>>

\* the wait_status a child shares with its parent: one reference each.  frees
\* counts the calls of free on it, uaf records an access after a free
NewWaitStatus ==
    [ref_count |-> 2, sema |-> 0, waited |-> FALSE, frees |-> 0, uaf |-> FALSE]

\* an access to the wait_status: it is an access to freed memory after a free
touch(ws) == [ws EXCEPT !.uaf = ws.uaf \/ ws.frees > 0]

\* process_execute up to sema_down: a null page returns TID_ERROR at once;
\* otherwise load_info is set up and thread_create makes the child, or fails
ProcessExecute(page, created) ==
    /\ proc.pc = "user" /\ Len(proc.children) < MaxChildren
    /\ IF ~page
       THEN proc' = [proc EXCEPT !.exec_ret = [error |-> TRUE, tid |-> 0]]
       ELSE proc' = [proc EXCEPT
                        !.pc = "exec_wait",
                        !.li = [sema |-> 0, success |-> FALSE, created |-> created],
                        !.children = IF created
                                     THEN Append(@, [pc |-> "loading", ws |-> NewWaitStatus])
                                     ELSE @]
    /\ UNCHANGED other_vars

\* start_process: load, then success is stored in load_info and the parent is
\* woken; a child whose load failed exits
StartProcess(c, success) ==
    /\ c \in 1..Len(proc.children) /\ proc.children[c].pc = "loading"
    /\ proc' = [proc EXCEPT !.li.success = success,
                            !.li.sema = @ + 1,
                            !.children[c].pc = IF success THEN "running" ELSE "exiting"]
    /\ UNCHANGED other_vars

\* process_execute from sema_down to the return
ExecuteReturn ==
    /\ proc.pc = "exec_wait" /\ proc.li.sema > 0
    /\ proc' = [proc EXCEPT
                   !.pc = "user",
                   !.li.sema = @ - 1,
                   !.exec_ret = IF ~proc.li.created \/ ~proc.li.success
                                THEN [error |-> TRUE, tid |-> 0]
                                ELSE [error |-> FALSE, tid |-> Len(proc.children)]]
    /\ UNCHANGED other_vars

\* process_wait up to sema_down: -1 at once for a child waited for before
ProcessWait(c) ==
    /\ proc.pc = "user" /\ c \in 1..Len(proc.children)
    /\ proc.children[c].pc /= "loading"
    /\ IF proc.children[c].ws.waited
       THEN proc' = [proc EXCEPT !.children[c].ws = touch(@)]
       ELSE proc' = [proc EXCEPT !.children[c].ws = [touch(@) EXCEPT !.waited = TRUE],
                                 !.pc = "wait", !.i = c]
    /\ UNCHANGED other_vars

\* process_wait from sema_down to the return of the exit code
WaitReturn ==
    /\ proc.pc = "wait" /\ proc.children[proc.i].ws.sema > 0
    /\ proc' = [proc EXCEPT !.children[proc.i].ws = [touch(@) EXCEPT !.sema = @ - 1],
                            !.pc = "user"]
    /\ UNCHANGED other_vars

\* process_exit of a child, its own wait_status: under the lock the count goes
\* down and is tested
ChildExitDec(c) ==
    /\ c \in 1..Len(proc.children) /\ proc.children[c].pc \in {"running", "exiting"}
    /\ proc' = [proc EXCEPT
                   !.children[c].ws = [touch(@) EXCEPT !.ref_count = @ - 1],
                   !.children[c].pc = IF proc.children[c].ws.ref_count - 1 = 0
                                      THEN "exit_free" ELSE "exit_up"]
    /\ UNCHANGED other_vars

\* process_exit of a child, after the lock is released: free when the count
\* was 0, sema_up otherwise
ChildExitEnd(c) ==
    /\ c \in 1..Len(proc.children) /\ proc.children[c].pc \in {"exit_free", "exit_up"}
    /\ proc' = [proc EXCEPT
                   !.children[c].ws = IF proc.children[c].pc = "exit_free"
                                      THEN [@ EXCEPT !.frees = @ + 1]
                                      ELSE [touch(@) EXCEPT !.sema = @ + 1],
                   !.children[c].pc = "dead"]
    /\ UNCHANGED other_vars

\* process_exit of the parent begins its walk of child_wait_status
ParentExit ==
    /\ proc.pc = "user"
    /\ proc' = [proc EXCEPT !.pc = "exit_walk", !.i = 1, !.to_free = <<>>]
    /\ UNCHANGED other_vars

\* the walk, under the lock of the wait_status: the count goes down
ParentExitDec ==
    /\ proc.pc = "exit_walk" /\ proc.i <= Len(proc.children)
    /\ proc' = [proc EXCEPT !.children[proc.i].ws = [touch(@) EXCEPT !.ref_count = @ - 1],
                            !.pc = "exit_test"]
    /\ UNCHANGED other_vars

\* the walk, after the lock is released: the count is read again and the
\* wait_status is marked when it is 0; a freed wait_status reads as anything
ParentExitTest ==
    /\ proc.pc = "exit_test"
    /\ \E zero \in BOOLEAN :
          /\ proc.children[proc.i].ws.frees = 0
                => zero = (proc.children[proc.i].ws.ref_count = 0)
          /\ proc' = [proc EXCEPT !.children[proc.i].ws = touch(@),
                                  !.to_free = IF zero THEN Append(@, proc.i) ELSE @,
                                  !.i = @ + 1,
                                  !.pc = "exit_walk"]
    /\ UNCHANGED other_vars

\* after the walk: free of every wait_status that was marked
ParentExitFree ==
    /\ proc.pc = "exit_walk" /\ proc.i > Len(proc.children)
    /\ proc' = [proc EXCEPT
                   !.children = [c \in 1..Len(proc.children) |->
                                    IF \E j \in 1..Len(proc.to_free) : proc.to_free[j] = c
                                    THEN [proc.children[c] EXCEPT !.ws.frees = @ + 1]
                                    ELSE proc.children[c]],
                   !.pc = "dead", !.alive = FALSE]
    /\ UNCHANGED other_vars

(* -------------------- filesys_open among removals --------------------- *)
\* filesys_open, the lookup: dir_lookup finds the name and opens its inode, or
\* finds nothing and filesys_open returns a null pointer
FilesysOpenLookup(t, sector) ==
    /\ UNCHANGED proc
    /\ ~panicked /\ nops < MaxOps
    /\ thr[t].pc = "idle"
    /\ \A k \in 1..Len(open_inodes) : open_inodes[k].open_cnt < MaxOpenCnt
    /\ IF sector \in homes
       THEN /\ \E u \in BOOLEAN : open_inodes' = inode_open(open_inodes, sector, u)
            /\ thr' = [thr EXCEPT ![t].pc = "looked_up", ![t].sector = sector]
            /\ UNCHANGED <<last, nops>>
       ELSE /\ last' = [NoOp EXCEPT !.op = "fsopen", !.sector = sector]
            /\ nops' = nops + 1
            /\ UNCHANGED <<open_inodes, thr>>
    /\ UNCHANGED <<bufcache, cache_lock, disk, logical, nwrites, ncalls, panicked,
                   free_map, homes, deniers>>

\* filesys_open, after the lookup: a null pointer when the inode is marked
\* removed, file_open otherwise; the thread then holds the file
FilesysOpenReturn(t) ==
    /\ UNCHANGED proc
    /\ ~panicked /\ thr[t].pc = "looked_up"
    /\ IF open_inodes[open_index(open_inodes, thr[t].sector)].removed
       THEN /\ thr' = [thr EXCEPT ![t] = IdleThr]
            /\ last' = [NoOp EXCEPT !.op = "fsopen", !.sector = thr[t].sector]
       ELSE /\ thr' = [thr EXCEPT ![t].pc = "holding"]
            /\ last' = [NoOp EXCEPT !.op = "fsopen", !.sector = thr[t].sector, !.ret = 1]
    /\ nops' = nops + 1
    /\ UNCHANGED <<bufcache, cache_lock, disk, logical, nwrites, ncalls, panicked,
                   free_map, open_inodes, homes, deniers>>

\* file_close by the thread that holds the file: inode_close
FilesysClose(t) ==
    /\ UNCHANGED proc
    /\ ~panicked /\ thr[t].pc = "holding"
    /\ LET c == inode_close(FsState(bufcache, disk, free_map), open_inodes,
                            open_index(open_inodes, thr[t].sector))
       IN /\ bufcache' = c.S.bc
          /\ disk' = c.S.d
          /\ free_map' = c.S.fm
          /\ panicked' = c.S.panic
          /\ open_inodes' = c.list
          /\ last' = [NoOp EXCEPT !.op = "close", !.sector = thr[t].sector]
    /\ thr' = [thr EXCEPT ![t] = IdleThr]
    /\ nops' = nops + 1
    /\ UNCHANGED <<cache_lock, logical, nwrites, ncalls, homes, deniers>>

\* filesys_remove of a name the directory holds: dir_remove opens the inode,
\* erases the entry, marks the inode removed and closes it
FilesysRemove(sector) ==
    /\ UNCHANGED proc
    /\ ~panicked /\ nops < MaxOps
    /\ sector \in homes
    /\ \E u \in BOOLEAN :
          LET list == inode_open(open_inodes, sector, u)
              c == inode_close(FsState(bufcache, disk, free_map),
                               inode_remove(list, open_index(list, sector)),
                               open_index(list, sector))
          IN /\ bufcache' = c.S.bc
             /\ disk' = c.S.d
             /\ free_map' = c.S.fm
             /\ panicked' = c.S.panic
             /\ open_inodes' = c.list
    /\ homes' = homes \ {sector}
    /\ last' = [NoOp EXCEPT !.op = "remove", !.sector = sector]
    /\ nops' = nops + 1
    /\ UNCHANGED <<cache_lock, thr, logical, nwrites, ncalls, deniers>>

(* --------------------------- specifications --------------------------- *)
Init ==
    /\ bufcache = bufcache_init
    /\ cache_lock = NULL
    /\ disk = [s \in Sectors |-> Fill(0)]
    /\ thr = [t \in Threads |-> IdleThr]
    /\ logical = [s \in Sectors |-> Fill(0)]
    /\ nwrites = 0
    /\ ncalls = 0
    /\ panicked = FALSE
    /\ free_map = free_map_init
    /\ open_inodes = <<>>
    /\ homes = {}
    /\ last = NoOp
    /\ nops = 0
    /\ deniers = [s \in DevSectors |-> 0]
    /\ proc = NoProc

\* the cache under bufcache_read, bufcache_write and bufcache_flush
Next ==
    \/ \E t \in Threads : \E s \in Sectors : CallRead(t, s)
    \/ \E t \in Threads : \E s \in Sectors : CallWrite(t, s, 0, BLOCK_SECTOR_SIZE)
    \/ \E t \in Threads : \E s \in Sectors : CallWrite(t, s, 0, 1)
    \/ \E t \in Threads : CallFlush(t)
    \/ \E t \in Threads : AccessIter(t)
    \/ \E t \in Threads : CleanIOStart(t)
    \/ \E t \in Threads : CleanIOXfer(t)
    \/ \E t \in Threads : CleanDone(t)
    \/ \E t \in Threads : ReplaceIO(t)
    \/ \E t \in Threads : ReplaceDone(t)
    \/ \E t \in Threads : Reacquire(t)
    \/ \E t \in Threads : FlushIter(t)

Spec == Init /\ [][Next]_vars

\* the threads of the cache under a fair scheduler: one more than the cache
\* has slots, so that every slot can be busy when a thread looks for a victim
LiveThreads == 1..(NUM_ENTRIES + 1)

\* the cache set up, no thread inside it
InitLive ==
    /\ bufcache = bufcache_init
    /\ cache_lock = NULL
    /\ disk = [s \in Sectors |-> Fill(0)]
    /\ thr = [t \in LiveThreads |-> IdleThr]
    /\ logical = [s \in Sectors |-> Fill(0)]
    /\ nwrites = 0
    /\ ncalls = 0
    /\ panicked = FALSE
    /\ free_map = free_map_init
    /\ open_inodes = <<>>
    /\ homes = {}
    /\ last = NoOp
    /\ nops = 0
    /\ deniers = [s \in DevSectors |-> 0]
    /\ proc = NoProc

\* a call into the cache by thread t
CallStep(t) ==
    \/ \E s \in Sectors : CallRead(t, s)
    \/ \E s \in Sectors : CallWrite(t, s, 0, BLOCK_SECTOR_SIZE)
    \/ \E s \in Sectors : CallWrite(t, s, 0, 1)
    \/ CallFlush(t)

\* the steps of thread t inside a cache call that need no lock: the scheduler
\* runs a ready thread, and a device transfer that was started completes
RunStep(t) ==
    \/ AccessIter(t)
    \/ CleanIOStart(t)
    \/ CleanIOXfer(t)
    \/ ReplaceIO(t)
    \/ FlushIter(t)

\* the steps of thread t that take cache_lock: lock_acquire queues the thread
\* on the lock's semaphore, so a lock that is released again and again is
\* given to it
LockStep(t) ==
    \/ CleanDone(t)
    \/ ReplaceDone(t)
    \/ Reacquire(t)

NextLive ==
    \/ \E t \in LiveThreads : ncalls < MaxLiveCalls /\ CallStep(t)
    \/ \E t \in LiveThreads : RunStep(t)
    \/ \E t \in LiveThreads : LockStep(t)

\* the cache under a fair scheduler, every device transfer completing
SpecLive ==
    /\ InitLive
    /\ [][NextLive]_vars
    /\ \A t \in LiveThreads : WF_vars(RunStep(t)) /\ SF_vars(LockStep(t))

\* three threads in the cache: one writes whole sectors and reads, one calls
\* bufcache_flush, one reads
NextEvict ==
    \/ \E s \in Sectors : CallWrite(1, s, 0, BLOCK_SECTOR_SIZE)
    \/ \E s \in Sectors : CallRead(1, s)
    \/ CallFlush(2)
    \/ \E s \in Sectors : CallRead(3, s)
    \/ \E t \in LiveThreads : RunStep(t)
    \/ \E t \in LiveThreads : LockStep(t)

SpecEvict == InitLive /\ [][NextEvict]_vars

\* the sectors of a device that is large enough to have a sector whose number
\* is the sentinel
SentinelSectors == Sectors \cup {INVALID_SECTOR}

\* the cache set up over that device, whose sectors hold data
InitSentinel ==
    /\ bufcache = bufcache_init
    /\ cache_lock = NULL
    /\ disk = [s \in SentinelSectors |-> Fill(s)]
    /\ thr = [t \in Threads |-> IdleThr]
    /\ logical = [s \in SentinelSectors |-> Fill(0)]
    /\ nwrites = 0
    /\ ncalls = 0
    /\ panicked = FALSE
    /\ free_map = free_map_init
    /\ open_inodes = <<>>
    /\ homes = {}
    /\ last = NoOp
    /\ nops = 0
    /\ deniers = [s \in DevSectors |-> 0]
    /\ proc = NoProc

\* the cache under bufcache_read of any sector of that device
NextSentinel ==
    \/ \E t \in Threads : \E s \in SentinelSectors : CallRead(t, s)
    \/ \E t \in Threads : AccessIter(t)
    \/ \E t \in Threads : ReplaceIO(t)
    \/ \E t \in Threads : ReplaceDone(t)
    \/ \E t \in Threads : Reacquire(t)

SpecSentinel == InitSentinel /\ [][NextSentinel]_vars

\* the same with bufcache_reset
NextReset ==
    \/ Next
    \/ Reset

SpecReset == Init /\ [][NextReset]_vars

\* the device of the inode layer after formatting, the cache set up
InitInode ==
    /\ bufcache = bufcache_init
    /\ cache_lock = NULL
    /\ disk = [s \in DevSectors |-> Fill(0)]
    /\ thr = [t \in Threads |-> IdleThr]
    /\ logical = [s \in Sectors |-> Fill(0)]
    /\ nwrites = 0
    /\ ncalls = 0
    /\ panicked = FALSE
    /\ free_map = free_map_init
    /\ open_inodes = <<>>
    /\ homes = {}
    /\ last = NoOp
    /\ nops = 0
    /\ deniers = [s \in DevSectors |-> 0]
    /\ proc = NoProc

\* the inode layer called by one thread at a time
NextInode ==
    \/ \E length \in Lengths : \E isdir \in BOOLEAN : \E g \in Garbage :
          Create(length, isdir, g)
    \/ \E sector \in DevSectors : InodeOpen(sector)
    \/ \E k \in 1..MaxInodes : \E size \in Lengths : \E offset \in Offsets :
          InodeReadAt(k, size, offset)
    \/ \E k \in 1..MaxInodes : \E size \in Lengths : \E offset \in Offsets :
          \E g \in Garbage : InodeWriteAt(k, size, offset, g)
    \/ \E k \in 1..MaxInodes : InodeRemove(k)
    \/ \E k \in 1..MaxInodes : InodeDenyWrite(k)
    \/ \E k \in 1..MaxInodes : InodeAllowWrite(k)
    \/ \E k \in 1..MaxInodes : InodeClose(k)

SpecInode == InitInode /\ [][NextInode]_vars

\* the lengths of the files that exist when SpecFiles starts
FileLengths == {1, 2 * BLOCK_SECTOR_SIZE + 1}

\* the file system after formatting and two calls of filesys_create, and the
\* home sectors the directory then names
TwoFiles(l1, l2, g) ==
    Bind(filesys_create(FsState(bufcache_init, [s \in DevSectors |-> Fill(0)],
                                free_map_init), l1, FALSE, g), LAMBDA a :
    Bind(filesys_create(a.S, l2, FALSE, g), LAMBDA b :
    [S |-> b.S, homes |-> {a.sector, b.sector}]))

\* two files exist, none is open
InitFiles ==
    /\ \E l1 \in FileLengths : \E l2 \in FileLengths : \E g \in Garbage :
          /\ bufcache = TwoFiles(l1, l2, g).S.bc
          /\ disk = TwoFiles(l1, l2, g).S.d
          /\ free_map = TwoFiles(l1, l2, g).S.fm
          /\ homes = TwoFiles(l1, l2, g).homes
    /\ cache_lock = NULL
    /\ thr = [t \in Threads |-> IdleThr]
    /\ logical = [s \in Sectors |-> Fill(0)]
    /\ nwrites = 0
    /\ ncalls = 0
    /\ panicked = FALSE
    /\ open_inodes = <<>>
    /\ last = NoOp
    /\ nops = 0
    /\ deniers = [s \in DevSectors |-> 0]
    /\ proc = NoProc

\* the inode layer on files that exist: one byte read or written at a time
NextFiles ==
    \/ \E sector \in DevSectors : InodeOpen(sector)
    \/ \E k \in 1..MaxInodes : InodeReadAt(k, 1, 0)
    \/ \E k \in 1..MaxInodes : \E offset \in Offsets : \E g \in Garbage :
          InodeWriteAt(k, 1, offset, g)
    \/ \E k \in 1..MaxInodes : InodeRemove(k)
    \/ \E k \in 1..MaxInodes : InodeDenyWrite(k)
    \/ \E k \in 1..MaxInodes : InodeAllowWrite(k)
    \/ \E k \in 1..MaxInodes : InodeClose(k)

SpecFiles == InitFiles /\ [][NextFiles]_vars

\* inode_open and inode_close called by several threads on files that exist
NextOpen ==
    \/ \E t \in Threads : \E sector \in DevSectors : OpenScan(t, sector)
    \/ \E t \in Threads : OpenInsert(t)
    \/ \E k \in 1..(MaxInodes * NumThreads) : CloseAmongOpens(k)

SpecOpen == InitFiles /\ [][NextOpen]_vars

\* the lengths of the file the process works on: one sector, and three
SysLengths == {BLOCK_SECTOR_SIZE, 2 * BLOCK_SECTOR_SIZE + 1}

\* the sizes of the reads and writes of the process: a byte, and three sectors
SysSizes == {1, 2 * BLOCK_SECTOR_SIZE + 1}

\* the positions seek is given
SeekPositions == {-1, 0, 2, BLOCK_SECTOR_SIZE}

OneFile(l, g) ==
    Bind(filesys_create(FsState(bufcache_init, [s \in DevSectors |-> Fill(0)],
                                free_map_init), l, FALSE, g), LAMBDA a :
    [S |-> a.S, homes |-> {a.sector}])

\* bufcache_flush with no other thread in the cache: every dirty entry is
\* written to the device
RECURSIVE flush_entries(_, _, _)
flush_entries(bc, d, i) ==
    IF i > NUM_ENTRIES THEN d
    ELSE flush_entries(bc,
                       IF bc.entries[i].dirty
                       THEN block_write(d, bc.entries[i].sector, bc.entries[i].data)
                       ELSE d,
                       i + 1)

\* filesys_done and the next boot: the cache is flushed, then initialised
reboot(S) == [S EXCEPT !.d = flush_entries(S.bc, S.d, 1), !.bc = bufcache_init]

\* one file exists, the process has opened nothing; the file was created since
\* the boot, or before it
InitSys ==
    /\ \E l \in SysLengths : \E g \in Garbage :
       \E S \in {OneFile(l, g).S, reboot(OneFile(l, g).S)} :
          /\ bufcache = S.bc
          /\ disk = S.d
          /\ free_map = S.fm
          /\ homes = OneFile(l, g).homes
    /\ cache_lock = NULL
    /\ thr = [t \in Threads |-> IdleThr]
    /\ logical = [s \in Sectors |-> Fill(0)]
    /\ nwrites = 0
    /\ ncalls = 0
    /\ panicked = FALSE
    /\ open_inodes = <<>>
    /\ last = NoOp
    /\ nops = 0
    /\ deniers = [s \in DevSectors |-> 0]
    /\ proc = NoProc

\* a process working on the file through its descriptors
NextSys ==
    \/ \E sector \in DevSectors : FilesysOpen(sector)
    \/ \E i \in 1..MaxFds : \E size \in SysSizes : FileRead(i, size)
    \/ \E i \in 1..MaxFds : \E size \in SysSizes : \E g \in Garbage : FileWrite(i, size, g)
    \/ \E fd \in Fds : \E position \in SeekPositions : SyscallSeek(fd, position)
    \/ \E i \in 1..MaxFds : FileClose(i)
    \/ SyscallReset
    \/ \E i \in 1..MaxFds : \E size \in SysSizes : SeqRead(i, size)
    \/ \E i \in 1..MaxFds : \E g \in Garbage : SeqWrite(i, g)

SpecSys == InitSys /\ [][NextSys]_vars

\* threads that open, close and remove files by name
NextLookup ==
    \/ \E t \in Threads : \E sector \in DevSectors : FilesysOpenLookup(t, sector)
    \/ \E t \in Threads : FilesysOpenReturn(t)
    \/ \E t \in Threads : FilesysClose(t)
    \/ \E sector \in DevSectors : FilesysRemove(sector)

SpecLookup == InitFiles /\ [][NextLookup]_vars

\* threads that write to the files they have opened
NextWriters ==
    \/ \E sector \in DevSectors : InodeOpen(sector)
    \/ \E k \in 1..MaxInodes : InodeDenyWrite(k)
    \/ \E t \in Threads : \E k \in 1..MaxInodes : \E size \in WriteSizes :
          \E offset \in Offsets : WriteBegin(t, k, size, offset)
    \/ \E t \in Threads : \E g \in Garbage : WriteAllocate(t, g)
    \/ \E t \in Threads : WriteStore(t)

SpecWriters == InitFiles /\ [][NextWriters]_vars

\* threads that write through inode_lock to the files that are open
NextLocked ==
    \/ \E sector \in DevSectors : InodeOpen(sector)
    \/ \E k \in 1..MaxInodes : InodeDenyWrite(k)
    \/ \E t \in Threads : \E k \in 1..MaxInodes : \E size \in WriteSizes :
          \E offset \in Offsets : LockedWriteCall(t, k, size, offset)
    \/ \E t \in Threads : \E g \in Garbage : LockedWrite(t, g)

\* the step of LockedWrite as the thread sees it
LockedWriteStep(t) ==
    /\ ~panicked /\ thr[t].pc = "w_lock"
    /\ open_index(open_inodes, thr[t].sector) /= 0
    /\ open_inodes[open_index(open_inodes, thr[t].sector)].inode_lock = NULL
    /\ thr' = [thr EXCEPT ![t] = IdleThr]

\* a thread that can go on inside inode_write_at does go on
SpecLocked ==
    /\ InitFiles /\ [][NextLocked]_vars
    /\ \A t \in Threads : WF_thr(LockedWriteStep(t))

\* a process that starts children, waits for them and exits, and its children
NextProc ==
    \/ \E page \in BOOLEAN : \E created \in BOOLEAN : ProcessExecute(page, created)
    \/ \E c \in 1..MaxChildren : \E success \in BOOLEAN : StartProcess(c, success)
    \/ ExecuteReturn
    \/ \E c \in 1..MaxChildren : ProcessWait(c)
    \/ WaitReturn
    \/ \E c \in 1..MaxChildren : ChildExitDec(c)
    \/ \E c \in 1..MaxChildren : ChildExitEnd(c)
    \/ ParentExit
    \/ ParentExitDec
    \/ ParentExitTest
    \/ ParentExitFree

SpecProc == InitInode /\ [][NextProc]_vars

\* the same under a fair scheduler: a thread that can run does run
SpecProcFair ==
    /\ InitInode /\ [][NextProc]_vars
    /\ WF_vars(\E c \in 1..MaxChildren : \E success \in BOOLEAN : StartProcess(c, success))
    /\ WF_vars(ExecuteReturn)
    /\ WF_vars(WaitReturn)
    /\ WF_vars(\E c \in 1..MaxChildren : ChildExitEnd(c))

\* the largest length the three tiers of the block map hold
MaxFileBytes ==
    (DIRECT_BLOCK_COUNT + INDIRECT_BLOCK_COUNT + INDIRECT_BLOCK_COUNT * INDIRECT_BLOCK_COUNT)
        * BLOCK_SECTOR_SIZE

\* the inode layer with files created at lengths up to one byte past the largest
NextMax ==
    \/ \E length \in Lengths \cup {MaxFileBytes + 1} : \E g \in Garbage :
          Create(length, FALSE, g)
    \/ \E sector \in DevSectors : InodeOpen(sector)
    \/ \E k \in 1..MaxInodes : \E offset \in Offsets : InodeReadAt(k, 1, offset)
    \/ \E k \in 1..MaxInodes : InodeClose(k)

SpecMax == InitInode /\ [][NextMax]_vars


(* ------------------------ claims on the buffer cache ------------------ *)
ReadReturns(t) ==
    thr[t].pc = "access" /\ thr[t].kind = "read" /\ thr'[t].pc = "idle"

WriteReturns(t) ==
    thr[t].pc = "access" /\ thr[t].kind = "write" /\ thr'[t].pc = "idle"

FlushReturns(t) ==
    thr[t].pc = "flush" /\ thr'[t].pc = "idle"

\* C1: a bufcache_read of a sector that starts after a bufcache_write to it has
\* returned copies out, in every cell, the version of that write or of a later
\* one (versions grow with every memcpy of a write), never an older image.
C1_ReadSeesCompletedWrites ==
    [][\A t \in Threads :
          ReadReturns(t) =>
             \A c \in Cells : thr'[t].buffer[c] >= thr[t].need[c]]_vars

\* C2: no two cache entries hold the same sector, unless it is the sentinel.
C2_DistinctSectors ==
    \A i \in EntryIds : \A j \in EntryIds :
        (i /= j /\ bufcache.entries[i].sector = bufcache.entries[j].sector)
            => bufcache.entries[i].sector = INVALID_SECTOR

\* C2 witness: two live sectors are cached, one in a slot that is not ready,
\* while a blind write has just renamed a victim in place.
C2_Witness ==
    /\ \E i \in EntryIds : \E j \in EntryIds :
          /\ i /= j
          /\ bufcache.entries[i].sector \in Sectors
          /\ bufcache.entries[j].sector \in Sectors
          /\ ~bufcache.entries[i].ready
    /\ \E t \in Threads :
          /\ thr[t].pc = "access" /\ thr[t].kind = "write" /\ thr[t].ent /= NULL
          /\ bufcache.entries[thr[t].ent].sector = thr[t].sector

\* C3: num_ready equals the number of entries whose ready flag is true.  Every
\* state of the model lies between two bookkeeping sections of clean and
\* replace, so the statement is an invariant of all states.
C3_NumReadyCountsReady ==
    bufcache.num_ready = Cardinality({i \in EntryIds : bufcache.entries[i].ready})

\* C4: when bufcache_flush returns and no thread has written to the cache since
\* it began, no entry is dirty and the device holds, for every sector that was
\* cached dirty when the flush began, the image that was cached.
C4_FlushPersistsDirty ==
    [][\A t \in Threads :
          (FlushReturns(t) /\ ~thr[t].wr) =>
             /\ \A i \in EntryIds : ~bufcache'.entries[i].dirty
             /\ \A s \in DOMAIN thr[t].snap : disk'[s] = thr[t].snap[s]]_vars

\* C5: hit_count <= access_count in every reachable state.
C5_HitsAtMostAccesses ==
    bufcache.num_hits <= bufcache.num_accesses

\* C6: a bufcache_write of a whole sector never reads the device: the thread is
\* never inside replace.
C6_BlindWriteReadsNothing ==
    \A t \in Threads :
        (thr[t].kind = "write" /\ thr[t].length = BLOCK_SECTOR_SIZE)
            => thr[t].pc \notin {"replace_io", "replace_acq"}

\* C6 witness: a whole-sector write that missed wrote a dirty victim back and
\* then renamed the slot in place.
C6_Witness ==
    \E t \in Threads :
        /\ thr[t].pc = "access" /\ thr[t].kind = "write"
        /\ thr[t].length = BLOCK_SECTOR_SIZE
        /\ thr[t].ent /= NULL
        /\ bufcache.entries[thr[t].ent].sector = thr[t].sector
        /\ \E s \in Sectors : s /= thr[t].sector /\ disk[s] /= Fill(0)

\* C7: a bufcache_write of fewer cells than a sector, to a sector that was not
\* cached, leaves as cached image the previous logical content of the sector
\* with only the written cells replaced.
C7_PartialWriteMerges ==
    [][\A t \in Threads :
          (WriteReturns(t) /\ thr[t].length < BLOCK_SECTOR_SIZE /\ ~thr[t].is_hit) =>
             bufcache'.entries[find(bufcache', thr[t].sector)].data
                = copy_in(logical[thr[t].sector],
                          copy_out(logical'[thr[t].sector], thr[t].offset, thr[t].length),
                          thr[t].offset, thr[t].length)]_vars

(* ------------------- further claims on the buffer cache ---------------- *)
\* the positions of a thread that is inside the device transfer of clean or
\* replace: between lock_release and lock_acquire
IoPcs == {"clean_io", "clean_xfer", "clean_acq", "replace_io", "replace_acq"}

C26_OneTransferPerEntry ==
    \A t \in Threads : \A u \in Threads :
        (t /= u /\ thr[t].pc \in IoPcs /\ thr[u].pc \in IoPcs)
            => thr[t].ent /= thr[u].ent

\* C27: a call that waited on until_ready or until_one_ready, or that cleaned,
\* renamed or replaced a slot, adds one to num_accesses and nothing to
\* num_hits.
C27_HitOnlyAtFirstLook ==
    [][\A t \in Threads :
          (thr[t].pc = "access" /\ thr'[t].pc = "idle" /\ thr[t].slow)
              => bufcache'.num_hits = bufcache.num_hits]_vars

\* the rearmost ready entry of the LRU list, NULL when no entry is ready
rearmost_ready(bc) ==
    IF \E k \in 1..Len(bc.lru_list) : bc.entries[bc.lru_list[k]].ready
    THEN bc.lru_list[CHOOSE k \in 1..Len(bc.lru_list) :
                        /\ bc.entries[bc.lru_list[k]].ready
                        /\ \A m \in 1..Len(bc.lru_list) :
                              bc.entries[bc.lru_list[m]].ready => m <= k]
    ELSE NULL

\* C28: a miss takes the rearmost ready entry of the LRU list, waits when no
\* entry is ready, and every entry an access returns is at the front of the
\* list when the call returns.
C28_EvictsRearmostReady ==
    [][\A t \in DOMAIN thr :
          (thr[t].pc = "access" /\ thr'[t] /= thr[t] /\ ~panicked')
              => /\ thr'[t].pc \in {"clean_io", "replace_io"}
                    => thr'[t].ent = rearmost_ready(bufcache)
                 /\ (thr'[t].pc = "access" /\ thr'[t].ent /= NULL)
                    => thr'[t].ent = rearmost_ready(bufcache)
                 /\ thr'[t].pc = "wait_one" <=> 
                       (find(bufcache, thr[t].sector) = NULL
                        /\ rearmost_ready(bufcache) = NULL)
                 /\ thr'[t].pc = "idle"
                    => bufcache'.lru_list[1] = find(bufcache, thr[t].sector)]_vars

\* C29: a slot that holds only the sentinel is never returned as a match for
\* a sector of the device: the first bufcache_read after bufcache_init, of any
\* sector of the device, is a miss, and every read of a device that is only
\* read copies out what the device holds in the sector.
C29_SentinelNeverMatches ==
    [][\A t \in Threads :
          ReadReturns(t)
              => /\ thr'[t].buffer = disk[thr[t].sector]
                 /\ bufcache.num_accesses = 1 => bufcache'.num_hits = 0]_vars

(* -------------------- observers of the inode layer ------------------- *)
\* the content of sector s as the next bufcache_read would see it
peek(bc, d, s) ==
    IF s \notin DOMAIN d THEN Fill(0)
    ELSE IF find(bc, s) /= NULL THEN bc.entries[find(bc, s)].data
    ELSE d[s]

\* the length stored in the inode at home sector h
file_length(bc, d, h) == peek(bc, d, h)[OFS_LENGTH]

\* the pointer of block index of the inode at h, tier by tier as in byte_to_sector
block_ptr(bc, d, h, index) ==
    IF index < DIRECT_BLOCK_COUNT THEN peek(bc, d, h)[index + 1]
    ELSE IF index < DIRECT_BLOCK_COUNT + INDIRECT_BLOCK_COUNT
    THEN peek(bc, d, peek(bc, d, h)[OFS_INDIRECT])[index - DIRECT_BLOCK_COUNT + 1]
    ELSE peek(bc, d,
              peek(bc, d, peek(bc, d, h)[OFS_DOUBLY])
                  [((index - DIRECT_BLOCK_COUNT - INDIRECT_BLOCK_COUNT)
                        \div INDIRECT_BLOCK_COUNT) + 1])
             [((index - DIRECT_BLOCK_COUNT - INDIRECT_BLOCK_COUNT)
                   % INDIRECT_BLOCK_COUNT) + 1]

\* byte pos of the file at h
file_byte(bc, d, h, pos) ==
    peek(bc, d, block_ptr(bc, d, h, pos \div BLOCK_SECTOR_SIZE))[(pos % BLOCK_SECTOR_SIZE) + 1]

\* the sectors reachable from the block map of the inode at h: data sectors,
\* the indirect sector, the doubly indirect sector and its second-level sectors
file_sectors(bc, d, h) ==
    LET n == bytes_to_sectors(file_length(bc, d, h))
        first2 == DIRECT_BLOCK_COUNT + INDIRECT_BLOCK_COUNT
    IN {block_ptr(bc, d, h, i) : i \in 0..(n - 1)}
       \cup (IF n > DIRECT_BLOCK_COUNT THEN {peek(bc, d, h)[OFS_INDIRECT]} ELSE {})
       \cup (IF n > first2
             THEN {peek(bc, d, h)[OFS_DOUBLY]}
                  \cup {peek(bc, d, peek(bc, d, h)[OFS_DOUBLY])[k + 1] :
                           k \in 0..((n - first2 - 1) \div INDIRECT_BLOCK_COUNT)}
             ELSE {})

(* ------------------------ claims on the inode layer ------------------- *)
\* C8: when inode_write_at of n bytes b at offset 0 has reported n, an
\* inode_read_at of n bytes from offset 0 of the same inode right after it
\* returns n and yields exactly b.
C8_WriteThenReadBack ==
    [][(/\ last.op = "write" /\ last.offset = 0 /\ last.ret = last.size
        /\ last'.op = "read" /\ nops' = nops + 1
        /\ last'.sector = last.sector /\ last'.offset = 0 /\ last'.size = last.size)
          => (last'.ret = last.size /\ last'.out = last.buffer)]_vars

\* C9: an inode_write_at that extends the file leaves every block pointer of
\* the old length as it was, and every byte below the old length and outside
\* the written range reads the same after the call as before it.
C9_ExtensionKeepsOldBlocks ==
    [][(/\ last'.op = "write" /\ nops' = nops + 1 /\ ~panicked'
        /\ file_length(bufcache', disk', last'.sector)
              > file_length(bufcache, disk, last'.sector))
          => /\ \A i \in 0..(bytes_to_sectors(file_length(bufcache, disk, last'.sector)) - 1) :
                   block_ptr(bufcache', disk', last'.sector, i)
                       = block_ptr(bufcache, disk, last'.sector, i)
             /\ \A pos \in 0..(file_length(bufcache, disk, last'.sector) - 1) :
                   (pos < last'.offset \/ pos >= last'.offset + last'.size)
                       => file_byte(bufcache', disk', last'.sector, pos)
                              = file_byte(bufcache, disk, last'.sector, pos)]_vars

\* C10: after the inode_close that drops the last reference to a removed inode,
\* its home sector and every sector reachable from its block map are free, and
\* each was released exactly once.
C10_RemovedInodeFreed ==
    [][(last'.op = "close" /\ last'.last_close /\ nops' = nops + 1)
          => /\ ~panicked'
             /\ \A s \in file_sectors(bufcache, disk, last'.sector) \cup {last'.sector} :
                   /\ s \in DevSectors
                   /\ ~free_map'[s]
                   /\ last'.rel[s] = 1]_vars

\* the sectors of the inode at home sector h: its home sector and the sectors
\* reachable from its block map
inode_sectors(bc, d, h) == (file_sectors(bc, d, h) \cup {h}) \cap DevSectors

\* the inode at home sector h is in the list of open inodes
is_open(list, h) == \E k \in 1..Len(list) : list[k].sector = h

\* C11: a step that leaves an inode open releases none of its data, indirect
\* or home sectors, also after inode_remove; inode_remove itself and the
\* inode_close of an inode that is not removed, or not the last reference,
\* release no sector at all.
C11_NoReleaseWhileOpen ==
    [][/\ \A h \in DevSectors :
             (is_open(open_inodes, h) /\ is_open(open_inodes', h))
                 => \A s \in inode_sectors(bufcache, disk, h) :
                        free_map[s] => free_map'[s]
       /\ (nops' = nops + 1 /\ last'.op = "remove") => free_map' = free_map
       /\ (nops' = nops + 1 /\ last'.op = "close" /\ ~last'.last_close)
             => free_map' = free_map]_vars

\* C12: an inode_create or an extending inode_write_at that fails because the
\* free-map has no sector left reports failure (create: false, write: 0 bytes)
\* and leaves the set of allocated sectors, and for the write the inode's
\* on-disk record, as they were before the call.
C12_FailedAllocationReleases ==
    [][/\ (nops' = nops + 1 /\ last'.op = "create" /\ last'.ret = 0)
             => free_map' = free_map
       /\ (/\ nops' = nops + 1 /\ last'.op = "write" /\ ~panicked'
           /\ ~last'.denied /\ last'.size > 0 /\ last'.ret = 0
           /\ last'.offset + last'.size > file_length(bufcache, disk, last'.sector))
             => /\ free_map' = free_map
                /\ peek(bufcache', disk', last'.sector)
                       = peek(bufcache, disk, last'.sector)]_vars

\* C13: when every opener denies at most once, allows once per own deny and
\* closes with no deny pending, every open inode has
\* 0 <= deny_write_cnt <= open_cnt and the assertions of inode_deny_write and
\* inode_allow_write hold.
C13_DenyAtMostOpen ==
    /\ \A k \in 1..Len(open_inodes) :
          /\ 0 <= open_inodes[k].deny_write_cnt
          /\ open_inodes[k].deny_write_cnt <= open_inodes[k].open_cnt
    /\ last.op \in {"deny", "allow"} => ~panicked

\* two openers of one inode have both denied writes
C13_Witness ==
    /\ last.op = "deny" /\ ~panicked
    /\ \E k \in 1..Len(open_inodes) :
          /\ open_inodes[k].open_cnt = 2
          /\ open_inodes[k].deny_write_cnt = 2

\* C14: inode_write_at on an inode whose deny_write_cnt is not 0 returns 0 and
\* changes nothing: the cache, the device (so the length and the block map)
\* and the free-map are as before the call, also when offset + size is past
\* the end of the file.
C14_DeniedWriteChangesNothing ==
    [][(nops' = nops + 1 /\ last'.op = "write" /\ last'.denied)
          => /\ last'.ret = 0
             /\ bufcache' = bufcache
             /\ disk' = disk
             /\ free_map' = free_map]_vars

\* a write past the end of a file whose writes are denied has returned
C14_Witness ==
    /\ last.op = "write" /\ last.denied /\ last.size > 0
    /\ last.offset + last.size > file_length(bufcache, disk, last.sector)

\* C15: however inode_open and inode_close of several threads interleave,
\* the list of open inodes holds at most one in-memory inode per home sector,
\* and inode_open makes a new one only when none exists for the sector.
C15_OneInodePerSector ==
    /\ \A j \in 1..Len(open_inodes) : \A k \in 1..Len(open_inodes) :
          open_inodes[j].sector = open_inodes[k].sector => j = k
    /\ (last.op = "open" /\ last.ret = 1)
          => \A k \in 2..Len(open_inodes) : open_inodes[k].sector /= last.sector

\* C16: inode_read_at of size bytes at offset returns
\* min(size, max(0, length - offset)): a short count when the request crosses
\* the end of the file, 0 when offset >= length; the call returns, it does not
\* stop the kernel.
C16_ReadCount ==
    [][(nops' = nops + 1 /\ last'.op = "read")
          => /\ ~panicked'
             /\ last'.ret = Min(last'.size,
                                Max(0, file_length(bufcache, disk, last'.sector)
                                           - last'.offset))]_vars

\* C17: after a successful filesys_create of a file of initial size k and the
\* inode_open that follows it, inode_length of the file is k.
C17_LengthAfterCreate ==
    [][(/\ last.op = "create" /\ last.ret = 1
        /\ nops' = nops + 1 /\ last'.op = "open" /\ last'.sector = last.sector)
          => inode_length(FsState(bufcache', disk', free_map'), last'.sector).length
                 = last.size]_vars

\* a file created with a length of several sectors has been opened right away
C17_Witness ==
    /\ nops = 2 /\ last.op = "open" /\ ~panicked
    /\ inode_length(FsState(bufcache, disk, free_map), last.sector).length
           = (MaxFileSectors - 1) * BLOCK_SECTOR_SIZE + 1

\* C18: the directory flag of a new inode is the one the caller of
\* filesys_create asked for: false for the create system call, true for mkdir.
C18_DirFlagAsAsked ==
    (last.op = "create" /\ last.ret = 1)
        => inode_is_dir(FsState(bufcache, disk, free_map), last.sector).isdir = last.isdir

\* C19: every byte of a file that was never written reads as zero: all bytes
\* of a file just created with length k, and the bytes between the old length
\* and the offset of a write that extends the file from beyond its end.
C19_UnwrittenBytesZero ==
    [][/\ (nops' = nops + 1 /\ last'.op = "create" /\ last'.ret = 1)
             => \A pos \in 0..(last'.size - 1) :
                    file_byte(bufcache', disk', last'.sector, pos) = 0
       /\ (/\ nops' = nops + 1 /\ last'.op = "write" /\ ~panicked'
           /\ last'.ret = last'.size
           /\ last'.offset > file_length(bufcache, disk, last'.sector))
             => \A pos \in file_length(bufcache, disk, last'.sector)..(last'.offset - 1) :
                    file_byte(bufcache', disk', last'.sector, pos) = 0]_vars

C30_ExtendingClearedOnReturn ==
    [][\A k \in 1..Len(open_inodes) :
          (/\ nops' = nops + 1 /\ last'.op = "write"
           /\ last'.sector = open_inodes[k].sector
           /\ ~open_inodes[k].extending)
              => ~open_inodes'[k].extending]_vars

(* ------------------------ files and descriptors ---------------------- *)
\* C24: a seek system call with a negative position fails validation: the
\* process is terminated with exit code -1, the call does not return to the
\* caller, and the positions of the files of its descriptors are, when the
\* process exits, what they were when the call was made.
C24_NegativeSeekExits ==
    [][(nops' = nops + 1 /\ last'.op = "seek" /\ last'.offset < 0)
          => /\ ~proc'.alive
             /\ proc'.exit_code = -1
             /\ ~last'.returned
             /\ last'.fds = proc.file_descriptors]_vars

\* seek with a negative position was called on a descriptor the process held,
\* whose file was at a position other than 0
C24_Witness ==
    /\ last.op = "seek" /\ last.offset < 0 /\ ~proc.alive
    /\ find_fd(last.fds, last.fd) /= 0
    /\ last.fds[find_fd(last.fds, last.fd)].curr_file.pos > 0

\* C21: two handles opened on the same path have independent positions and
\* share one contents state: a read through one handle advances that handle
\* by the bytes read and leaves every other descriptor as it was, the open
\* inodes never hold two inodes for one sector, and the bytes written through
\* one handle are what a read of the same range through another handle on the
\* same file returns next.
C21_HandlesShareContents ==
    [][/\ (nops' = nops + 1 /\ last'.op = "fread")
             => \A i \in 1..Len(proc.file_descriptors) :
                    IF proc.file_descriptors[i].fd = last'.fd
                    THEN proc'.file_descriptors[i].curr_file.pos
                             = proc.file_descriptors[i].curr_file.pos + last'.ret
                    ELSE proc'.file_descriptors[i] = proc.file_descriptors[i]
       /\ \A j, k \in 1..Len(open_inodes') :
              open_inodes'[j].sector = open_inodes'[k].sector => j = k
       /\ (/\ last.op = "fwrite" /\ nops' = nops + 1 /\ last'.op = "fread"
           /\ last'.fd /= last.fd /\ last'.sector = last.sector
           /\ last'.offset = last.offset /\ last'.size = last.size)
             => /\ ~panicked'
                /\ last'.ret >= last.ret
                /\ SubSeq(last'.out, 1, last.ret) = SubSeq(last.buffer, 1, last.ret)]_vars

\* the file, with its inode and its pointer blocks, fits in the cache
fits_in_cache(bc, d, h) == Cardinality(inode_sectors(bc, d, h)) <= NUM_ENTRIES

C23_SecondPassHitsMore ==
    [][(/\ last.op = "seqread" /\ last.cold
        /\ nops' = nops + 1 /\ last'.op = "seqread"
        /\ last'.sector = last.sector /\ last'.size = last.size
        /\ ~panicked'
        /\ fits_in_cache(bufcache, disk, last.sector))
          => /\ last'.hits > last.hits
             /\ last'.hits * last.accesses > last.hits * last'.accesses]_vars

\* reset, a pass over a file of one sector, and a second pass: the first pass
\* missed on the inode and on the data sector, the second pass only hit
C23_Witness ==
    /\ last.op = "seqread" /\ ~last.cold /\ ~panicked
    /\ last.ret = BLOCK_SECTOR_SIZE
    /\ fits_in_cache(bufcache, disk, last.sector)
    /\ last.hits = last.accesses
    /\ bufcache.num_accesses = 2 * last.accesses
    /\ bufcache.num_hits = 2 * last.hits - 2

(* ----------------------- writes and the block map --------------------- *)
\* C36: inode_write_at with size 0 is a no-op at every offset, past the end
\* of the file included: it returns 0, takes no sector from the free-map and
\* leaves the on-disk inode, and so the length and the block pointers, as
\* they were.
C36_EmptyWriteIsNoOp ==
    [][(nops' = nops + 1 /\ last'.op = "write" /\ last'.size = 0)
          => /\ ~panicked'
             /\ last'.ret = 0
             /\ free_map' = free_map
             /\ peek(bufcache', disk', last'.sector)
                    = peek(bufcache, disk, last'.sector)]_vars

\* the pointer blocks a file of n data sectors has: the indirect block, the
\* doubly indirect block and its second-level blocks
pointer_blocks(n) ==
    (IF n > DIRECT_BLOCK_COUNT THEN 1 ELSE 0)
    + (IF n > DIRECT_BLOCK_COUNT + INDIRECT_BLOCK_COUNT
       THEN 2 + ((n - DIRECT_BLOCK_COUNT - INDIRECT_BLOCK_COUNT - 1) \div INDIRECT_BLOCK_COUNT)
       ELSE 0)

\* C35: after a successful inode_create or extending inode_write_at no sector
\* is referenced twice: for every inode the directory names, the data sectors
\* and pointer blocks of its block map are pairwise distinct device sectors
\* marked allocated in the free-map, as many data sectors as its length asks
\* for, none of them a home sector and none shared with another inode.
C35_NoSectorReferencedTwice ==
    [][(/\ nops' = nops + 1 /\ ~panicked'
        /\ \/ last'.op = "create" /\ last'.ret = 1
           \/ /\ last'.op = "write" /\ last'.ret = last'.size
              /\ file_length(bufcache', disk', last'.sector)
                    > file_length(bufcache, disk, last'.sector))
          => \A h \in homes' :
                /\ file_sectors(bufcache', disk', h) \subseteq DevSectors
                /\ \A s \in file_sectors(bufcache', disk', h) \cap DevSectors : free_map'[s]
                /\ Cardinality(file_sectors(bufcache', disk', h))
                       = bytes_to_sectors(file_length(bufcache', disk', h))
                         + pointer_blocks(bytes_to_sectors(file_length(bufcache', disk', h)))
                /\ file_sectors(bufcache', disk', h) \cap homes' = {}
                /\ \A g \in homes' \ {h} :
                      file_sectors(bufcache', disk', h)
                          \cap file_sectors(bufcache', disk', g) = {}]_vars

\* C33: for every inode the directory names and every offset, byte_to_sector
\* returns NO_SECTOR exactly when the offset is not below the length, and
\* otherwise the pointer of the tier of block index offset / BLOCK_SECTOR_SIZE:
\* a direct pointer, an entry of the indirect block, or an entry of a
\* second-level block of the doubly indirect block.  The sector it returns for
\* block i is the one the allocator assigned to block i: after a successful
\* inode_create it is, for every block of the file, a sector that was free
\* before the call and is allocated after it, a different one for each block.
C33_ByteToSectorFollowsTiers ==
    [][/\ \A h \in homes' : \A pos \in 0..(MaxFileSectors * BLOCK_SECTOR_SIZE) :
             Bind(byte_to_sector(FsState(bufcache', disk', free_map'), h, pos), LAMBDA b :
                 ~b.S.panic
                     => b.rv = IF pos >= file_length(bufcache', disk', h) THEN NO_SECTOR
                               ELSE block_ptr(bufcache', disk', h, pos \div BLOCK_SECTOR_SIZE))
       /\ (nops' = nops + 1 /\ last'.op = "create" /\ last'.ret = 1 /\ ~panicked')
             => \A i, j \in 0..(bytes_to_sectors(last'.size) - 1) :
                    Bind(byte_to_sector(FsState(bufcache', disk', free_map'), last'.sector,
                                        i * BLOCK_SECTOR_SIZE).rv, LAMBDA rv :
                        /\ rv \in DevSectors
                        /\ ~free_map[rv] /\ free_map'[rv]
                        /\ i /= j
                             => rv /= byte_to_sector(FsState(bufcache', disk', free_map'),
                                                     last'.sector, j * BLOCK_SECTOR_SIZE).rv)]_vars

\* C34: a create whose length exceeds the largest file size fails with an
\* error result and leaves the free-map and the directory as they were; the
\* kernel does not panic on an assertion or a wild pointer.
C34_TooLongFails ==
    [][(nops' = nops + 1 /\ last'.op = "create" /\ last'.size > MaxFileBytes)
          => /\ ~panicked'
             /\ last'.ret = 0
             /\ free_map' = free_map
             /\ homes' = homes]_vars

(* --------------------------- bufcache_reset --------------------------- *)
\* C37: bufcache_reset does not change the logical content of any sector:
\* with no thread inside the cache, the bytes the next bufcache_read of a
\* sector would return are the same after the reset as before it, data written
\* and not yet written back included; and a reset issued while a thread is
\* inside clean or replace leaves an entry that was not ready not ready.
C37_ResetKeepsContents ==
    [][(ncalls' = ncalls + 1 /\ thr' = thr)
          => /\ (\A t \in Threads : thr[t].pc = "idle")
                   => \A s \in Sectors :
                          peek(bufcache', disk', s) = peek(bufcache, disk, s)
             /\ \A e \in EntryIds :
                   ~bufcache.entries[e].ready => ~bufcache'.entries[e].ready]_vars

(* ---------------------------- filesys_open ---------------------------- *)
\* the threads that hold a reference to the inode at sector: those between the
\* lookup and the return of filesys_open, and those that hold the file
holders(sector) ==
    {t \in Threads : thr[t].pc \in {"looked_up", "holding"} /\ thr[t].sector = sector}

\* C38: a filesys_open that fails, because the name is not found or because
\* the inode is marked removed, leaves no reference behind: every in-memory
\* inode has as many openers as there are threads holding it, so a removed
\* inode leaves the table, and is deallocated, when its last holder closes it.
C38_FailedOpenLeavesNoReference ==
    \A k \in 1..Len(open_inodes) :
        open_inodes[k].open_cnt = Cardinality(holders(open_inodes[k].sector))

(* ------------------------ processes and children --------------------- *)
\* C39: the wait_status a parent and a child share is freed exactly once, by
\* the one that exits last, whatever the interleaving of their process_exit:
\* free is called on it at most once, once when both are dead, and no access
\* to it follows a free.
C39_WaitStatusFreedOnce ==
    \A c \in 1..Len(proc.children) :
        /\ proc.children[c].ws.frees <= 1
        /\ ~proc.children[c].ws.uaf
        /\ (proc.pc = "dead" /\ proc.children[c].pc = "dead")
               => proc.children[c].ws.frees = 1

\* C40: process_execute always returns: a caller waiting on the semaphore of
\* load_info is eventually past it, with the thread id of a child that loaded
\* or with TID_ERROR.
C40_ExecuteReturns ==
    (proc.pc = "exec_wait") ~> (proc.pc /= "exec_wait")

(* ---------------- inode_write_at by several threads ------------------ *)
\* the thread has returned from a write that extended the file at sector
extended(t, sector) ==
    /\ thr[t].pc = "w_done" /\ thr[t].wr /\ thr[t].sector = sector
    /\ thr[t].i = thr[t].length

\* C32: when two threads have called inode_write_at on the same inode at the
\* same time and both have extended it, then after both have returned the
\* length of the file is the larger of the two end offsets, and every sector
\* either of them took from the free-map is referenced by the block map.
C32_ConcurrentExtensionsKeepBoth ==
    \A sector \in DevSectors :
        (~panicked /\ \A t \in Threads : extended(t, sector))
            => /\ \A t \in Threads :
                      file_length(bufcache, disk, sector) >= thr[t].offset + thr[t].length
               /\ \E t \in Threads :
                      file_length(bufcache, disk, sector) = thr[t].offset + thr[t].length
               /\ \A t \in Threads : \A s \in DevSectors :
                      thr[t].need[s + 1] => s \in file_sectors(bufcache, disk, sector)

(* ------------------- inode_write_at and inode_lock -------------------- *)
\* C31: inode_write_at releases inode_lock on every return path: no thread
\* that has returned holds the lock of an inode, and a thread that waits for
\* the lock in a further inode_write_at on the inode acquires it and
\* completes the call.
C31_WriteReleasesLock ==
    /\ [](\A k \in 1..Len(open_inodes) : \A t \in Threads :
             open_inodes[k].inode_lock = t => thr[t].pc /= "idle")
    /\ \A t \in Threads : (thr[t].pc = "w_lock") ~> (thr[t].pc /= "w_lock")

====
